---- MODULE Spec2Model ----
(***************************************************************************)
(* Open-addressing hash table with linear probing (src/src/hash_table.c).  *)
(*                                                                         *)
(* The state is the hash_table_t structure: three parallel arrays indexed  *)
(* by slot (keys, key_sizes, values) and the scalars size, capacity,       *)
(* _resize_threshold, _resize_factor and _value_destructor.  Every public  *)
(* function is one action.  Each malloc/calloc the code performs is an     *)
(* input of the action that may succeed or fail.                           *)
(*                                                                         *)
(* Pointers: a value pointer is a number (NULL is 0); a key buffer is the  *)
(* byte sequence it holds, and the null key pointer is NULL_KEY, a value   *)
(* different from every byte sequence (also from the empty one, which a    *)
(* zero-length key yields).  A function is called on the table or on the   *)
(* null table pointer NULL_TABLE, with a key or the null key pointer.      *)
(*                                                                         *)
(* Floats: _resize_threshold and _resize_factor are kept as exact          *)
(* fractions <<numerator, denominator>>.  The values used (0.5, 1.0, 1.5,  *)
(* 2.0) are exact in binary floating point, and for the small sizes and    *)
(* capacities reached here the float division and product round to the     *)
(* same side of the comparison as the exact fraction.                      *)
(***************************************************************************)
EXTENDS Integers, Sequences, FiniteSets, TLC

VARIABLES
    table,          \* the hash_table_t structure
    live,           \* TRUE from create until hash_table_destroy
    op,             \* the last call made on the table and what it returned
    destroyed,      \* value pointers given to the destructor / free by the last call
    freed_keys,     \* key buffers freed by the last call
    last_inserted,  \* history: per key, the value of its latest successful insert
                    \*          not yet followed by remove of the key or clear
    removed,        \* history: keys removed and not inserted again since
    ever_inserted,  \* history: keys some insert has stored since the table was created
    n_inserts,      \* history: successful inserts while the history is "distinct"
    m_removes,      \* history: removes while the history is "distinct"
    distinct_history, \* history: so far only inserts of pairwise distinct keys and
                      \* removes of distinct previously inserted keys
    resizes,        \* history: number of successful resizes
    heap,           \* the caller's memory: the bytes in its key buffer and the
                    \* contents of the value objects, by pointer
    running         \* the call in progress and the position of its loop, where
                    \* calls are followed statement by statement (StepSpec)

vars == <<table, live, op, destroyed, freed_keys, last_inserted, removed,
          ever_inserted, n_inserts, m_removes, distinct_history, resizes, heap,
          running>>

(***************************************************************************)
(* Bounds of the model.                                                    *)
(***************************************************************************)
MaxResizes == 1     \* an insert that would grow the table once more is not taken
NumScenarioKeys == 9      \* the keys "key_0", "key_1", ... of the default-table scenario
MaxInitialCapacity == 4   \* the constructors are called with capacities 1..MaxInitialCapacity
MaxVal == 2         \* value pointers are 1..MaxVal
NumKeys == 3        \* the first NumKeys keys of KeyPool are used
NearFull == 3       \* a large table is filled up to NearFull entries below a limit
MaxLargeInserts == 6  \* single inserts followed on a large table

NULL == 0
NULL_KEY == <<-1>>
\* A key pointer that is the caller's key buffer itself, not a copy of it.
CALLER_KEY == <<NULL - 2>>
NULL_TABLE == [null |-> TRUE]   \* the null table pointer: different from every table
NoValue == NULL - 1   \* "no value": different from NULL and from every pointer

\* "a\0", "a", "b\0", "b", "", "ab", "ab\0", "\0": C strings with their terminator
\* (the string wrappers' convention) and raw byte keys without it.
KeyPool ==
    << <<97, 0>>, <<97>>, <<98, 0>>, <<98>>, <<>>, <<97, 98>>, <<97, 98, 0>>, <<0>> >>

Keys == {KeyPool[i] : i \in 1..NumKeys}

\* "key_0\0", "key_1\0", ...: the string keys of test_insert_multiple_values
ScenarioKey(i) == <<107, 101, 121, 95, 48 + i, 0>>
ScenarioKeys == {ScenarioKey(i) : i \in 0..(NumScenarioKeys - 1)}
Values == 1..MaxVal

\* Parameters given to hash_table_create_with_parameters_and_destructor:
\* initial capacity, threshold, factor, and whether a custom destructor is given
\* (TRUE) or NULL, meaning free (FALSE).
Configs ==
    { [capacity |-> 2, threshold |-> <<1, 2>>, factor |-> <<2, 1>>, destructor |-> FALSE],
      [capacity |-> 2, threshold |-> <<1, 1>>, factor |-> <<3, 2>>, destructor |-> TRUE],
      [capacity |-> 2, threshold |-> <<1, 2>>, factor |-> <<3, 2>>, destructor |-> FALSE] }

\* The first of the three calloc calls of a resize that returned NULL ("none" when
\* all succeeded); the test after them fails on any one of them.
AllocOutcomes == {"none", "keys", "key_sizes", "values"}

(***************************************************************************)
(* FNV-1a over size_t (64 bits), kept as four 16-bit limbs, low limb first.*)
(***************************************************************************)
Limb == 2^16

RECURSIVE BitXor(_, _)
BitXor(a, b) ==
    IF a = 0 THEN b
    ELSE IF b = 0 THEN a
    ELSE (((a % 2) + (b % 2)) % 2) + 2 * BitXor(a \div 2, b \div 2)

\* hash ^= bytes[i]
XorByte(h, b) == [h EXCEPT ![1] = BitXor(h[1], b)]

\* hash *= fnv_prime, with 0x1000193 = 0x0100 * 2^16 + 0x0193, modulo 2^64
MulPrime(h) ==
    LET p1 == h[1] * 403
        p2 == h[2] * 403 + h[1] * 256 + (p1 \div Limb)
        p3 == h[3] * 403 + h[2] * 256 + (p2 \div Limb)
        p4 == h[4] * 403 + h[3] * 256 + (p3 \div Limb)
    IN  <<p1 % Limb, p2 % Limb, p3 % Limb, p4 % Limb>>

RECURSIVE fnv_loop(_, _, _)
fnv_loop(hash, key, i) ==
    IF i > Len(key) THEN hash
    ELSE fnv_loop(MulPrime(XorByte(hash, key[i])), key, i + 1)

\* 0x811C9DC5 = 0x811C * 2^16 + 0x9DC5
hash_table_fnv_1a(key) == fnv_loop(<<40389, 33052, 0, 0>>, key, 1)

\* hash % capacity
HashMod(h, m) ==
    LET a4 == h[4] % m
        a3 == (a4 * Limb + h[3]) % m
        a2 == (a3 * Limb + h[2]) % m
    IN  (a2 * Limb + h[1]) % m

HashOf ==
    [k \in {KeyPool[i] : i \in 1..Len(KeyPool)} \cup ScenarioKeys |-> hash_table_fnv_1a(k)]

HomeIndex(key, capacity) == HashMod(HashOf[key], capacity)

(***************************************************************************)
(* Comparison of a stored key with the query key.                          *)
(***************************************************************************)
memcmp_eq(stored, key, n) == \A i \in 1..n : stored[i] = key[i]

\* a faulty comparison: the stored key only has to start with the query key
KeyMatchesPrefix(t, index, key) ==
    /\ t.key_sizes[index] >= Len(key)
    /\ memcmp_eq(t.keys[index], key, Len(key))

KeyMatches(t, index, key) ==
    /\ t.key_sizes[index] = Len(key)
    /\ memcmp_eq(t.keys[index], key, Len(key))

(***************************************************************************)
(* The probe loop of get, insert and remove: from index, while the slot is *)
(* occupied and fewer than capacity probes were made, stop on a match,     *)
(* else step to the next slot (wrapping).                                  *)
(***************************************************************************)
RECURSIVE probe(_, _, _, _)
probe(t, key, index, iterations) ==
    IF t.keys[index] # NULL_KEY /\ iterations < t.capacity
    THEN IF KeyMatches(t, index, key)
         THEN [found |-> TRUE, index |-> index, iterations |-> iterations]
         ELSE probe(t, key, (index + 1) % t.capacity, iterations + 1)
    ELSE [found |-> FALSE, index |-> index, iterations |-> iterations]

Find(t, key) == probe(t, key, HomeIndex(key, t.capacity), 0)

\* a faulty return: the value of the slot the probe ended at, matching or not
value_at_last_slot(t, p) == t.values[p.index]

\* after the probe p: the value of the matching slot, or NULL
value_at(t, p) == IF p.found THEN t.values[p.index] ELSE NULL

\* table == NULL || key == NULL
InvalidArguments(t, key) == t = NULL_TABLE \/ key = NULL_KEY

hash_table_get(t, key) ==
    IF InvalidArguments(t, key) THEN NULL ELSE value_at(t, Find(t, key))

hash_table_contains(t, key) ==
    IF InvalidArguments(t, key) THEN 0
    ELSE IF hash_table_get(t, key) # NULL THEN 1 ELSE 0

hash_table_size(t) == IF t = NULL_TABLE THEN 0 ELSE t.size

hash_table_capacity(t) == IF t = NULL_TABLE THEN 0 ELSE t.capacity

\* _value_destructor(v) when one is configured, free(v) otherwise
DestroyValue(t, v) ==
    IF t.value_destructor THEN <<"destructor", v>> ELSE <<"free", v>>

(***************************************************************************)
(* hash_table_resize.                                                      *)
(***************************************************************************)
\* the inner loop of the rehash: the first empty slot from index
RECURSIVE free_slot(_, _, _)
free_slot(t, index, iterations) ==
    IF t.keys[index] # NULL_KEY /\ iterations < t.capacity
    THEN free_slot(t, (index + 1) % t.capacity, iterations + 1)
    ELSE index

\* the rehash loop over the old slots i, i+1, ..., old.capacity - 1
RECURSIVE rehash(_, _, _)
rehash(old, new, i) ==
    IF i >= old.capacity THEN new
    ELSE IF old.keys[i] # NULL_KEY
    THEN LET home == HomeIndex(SubSeq(old.keys[i], 1, old.key_sizes[i]), new.capacity)
             index == free_slot(new, home, 0)
         IN  rehash(old,
                    [new EXCEPT !.keys[index] = old.keys[i],
                                !.key_sizes[index] = old.key_sizes[i],
                                !.values[index] = old.values[i],
                                !.size = @ + 1],
                    i + 1)
    ELSE rehash(old, new, i + 1)

\* a faulty failure branch: the old arrays are put back after size was reset
resize_restore_size_reset(t, new_capacity) == [t EXCEPT !.size = 0]

\* a faulty failure branch: the old arrays are put back under the new capacity
resize_restore_new_capacity(t, new_capacity) == [t EXCEPT !.capacity = new_capacity]

\* the failure branch: the new arrays are released and the old ones put back
resize_restore(t, new_capacity) == t

\* failed: the first calloc that returned NULL, or "none"
hash_table_resize(t, new_capacity, failed) ==
    IF new_capacity <= t.capacity THEN [table |-> t, ret |-> 1, fail |-> "no_growth"]
    ELSE IF failed # "none"
    THEN [table |-> resize_restore(t, new_capacity), ret |-> 1, fail |-> "resize_alloc"]
    ELSE [table |-> rehash(t,
                           [t EXCEPT !.capacity = new_capacity,
                                     !.size = 0,
                                     !.keys = [i \in 0..(new_capacity - 1) |-> NULL_KEY],
                                     !.key_sizes = [i \in 0..(new_capacity - 1) |-> 0],
                                     !.values = [i \in 0..(new_capacity - 1) |-> NULL]],
                           0),
          ret |-> 0, fail |-> "none"]

(***************************************************************************)
(* float arithmetic.  A float keeps FLT_MANT_DIG significant bits; a       *)
(* conversion or an operation rounds its exact result to the nearest       *)
(* float, a tie to the one with the even significand.  Thresholds and      *)
(* factors are <<numerator, denominator>>; those of the model are floats   *)
(* with an even significand, and the factors are multiples of 1/2.         *)
(***************************************************************************)
FLT_MANT_DIG == 24

\* every integer up to FloatExact is a float, and every multiple of 1/2 up to
\* FloatHalves
FloatExact == 2^FLT_MANT_DIG
FloatHalves == 2^(FLT_MANT_DIG - 1)

\* the distance between the floats next to the integer k
RECURSIVE Ulp(_)
Ulp(k) == IF k < FloatExact THEN 1 ELSE 2 * Ulp(k \div 2)

\* q units and a rest of r out of whole: q or q + 1 units, the nearest, ties to even
RoundHalfEven(q, r, whole) ==
    IF 2 * r > whole \/ (2 * r = whole /\ q % 2 = 1) THEN q + 1 ELSE q

\* the float nearest to n / d, truncated to an integer as (size_t) does:
\* below FloatHalves a multiple of 1/2 is a float
FloatTruncated(n, d) ==
    IF n < FloatHalves * d THEN n \div d
    ELSE RoundHalfEven(n \div (d * Ulp(n \div d)), n % (d * Ulp(n \div d)),
                       d * Ulp(n \div d)) * Ulp(n \div d)

\* (float)k for a size_t k
ToFloat(k) == IF k <= FloatExact THEN k ELSE FloatTruncated(k, 1)

\* k with 2^(-k) <= tn / td < 2^(1 - k), for 0 < tn / td < 2
RECURSIVE BinaryExponent(_, _)
BinaryExponent(tn, td) == IF tn >= td THEN 0 ELSE 1 + BinaryExponent(2 * tn, td)

\* a / b > t in float, for floats a, b with integer values: the quotient
\* rounds to a float above t exactly when a / b exceeds t by more than half
\* the distance from t to the next float, 2^(-k - FLT_MANT_DIG); for b below
\* FloatExact / t[2] that is less than one unit of the comparison
FloatQuotientExceeds(a, b, t) ==
    IF b * t[2] < FloatExact THEN a * t[2] > b * t[1]
    ELSE a * t[2] - b * t[1]
             > (b * t[2]) \div 2^(FLT_MANT_DIG + BinaryExponent(t[1], t[2]))

(***************************************************************************)
(* hash_table_insert.                                                      *)
(***************************************************************************)
\* a faulty growth test: the threshold is ignored, the table grows when it is full
NeedsResizeWhenFull(t) == t.size + 1 > t.capacity

\* a faulty growth test: the load before the new entry is compared
NeedsResizeCurrentLoad(t) ==
    t.size * t.resize_threshold[2] > t.resize_threshold[1] * t.capacity

\* (float)(size + 1) / capacity > _resize_threshold
NeedsResize(t) ==
    FloatQuotientExceeds(ToFloat(t.size + 1), ToFloat(t.capacity), t.resize_threshold)

\* (size_t)(capacity * _resize_factor)
NewCapacity(t) ==
    FloatTruncated(ToFloat(t.capacity) * t.resize_factor[1], t.resize_factor[2])

\* What a call of insert or insert_copy reports: the table it leaves, its return
\* value, the values it destroyed, and for the properties the cause of a failure
\* (fail), whether the key was found (hit), whether the table was resized, and
\* whether insert_copy freed its copy.
Outcome(t, ret, dest, fail, hit, resized) ==
    [table |-> t, ret |-> ret, destroyed |-> dest, fail |-> fail, hit |-> hit,
     resized |-> resized, copy_freed |-> FALSE]

\* a faulty update: the slot behind the key's slot receives the value as well
insert_update_next_slot(t, index, value, resized) ==
    Outcome([t EXCEPT !.values[index] = value,
                      !.values[(index + 1) % t.capacity] = value], 0,
            <<DestroyValue(t, t.values[index])>>, "none", TRUE, resized)

\* the key is already stored at index: its value is destroyed and replaced
insert_update(t, index, value, resized) ==
    Outcome([t EXCEPT !.values[index] = value], 0,
            <<DestroyValue(t, t.values[index])>>, "none", TRUE, resized)

\* a faulty new-entry path: the value is stored before the key copy is tested
insert_new_value_first(t, index, key, value, key_copy_ok, resized) ==
    IF ~key_copy_ok
    THEN Outcome([t EXCEPT !.values[index] = value], 1, <<>>, "key_alloc", FALSE, resized)
    ELSE Outcome([t EXCEPT !.keys[index] = key,
                           !.key_sizes[index] = Len(key),
                           !.values[index] = value,
                           !.size = @ + 1],
                 0, <<>>, "none", FALSE, resized)

\* the probe ended at index without a match: the key is copied and stored there
insert_new(t, index, key, value, key_copy_ok, resized) ==
    IF ~key_copy_ok
    THEN Outcome(t, 1, <<>>, "key_alloc", FALSE, resized)
    ELSE Outcome([t EXCEPT !.keys[index] = key,
                           !.key_sizes[index] = Len(key),
                           !.values[index] = value,
                           !.size = @ + 1],
                 0, <<>>, "none", FALSE, resized)

\* a faulty variant: a new entry keeps the caller's key pointer, not a copy
insert_at_keeps_pointer(t, p, key, value, key_copy_ok, resized) ==
    IF p.found THEN insert_update(t, p.index, value, resized)
    ELSE IF ~key_copy_ok THEN Outcome(t, 1, <<>>, "key_alloc", FALSE, resized)
    ELSE Outcome([t EXCEPT !.keys[p.index] = CALLER_KEY,
                           !.key_sizes[p.index] = Len(key),
                           !.values[p.index] = value,
                           !.size = @ + 1],
                 0, <<>>, "none", FALSE, resized)

\* after the probe p: update the slot of the key, or fill the slot the probe ended at
insert_at(t, p, key, value, key_copy_ok, resized) ==
    IF p.found THEN insert_update(t, p.index, value, resized)
    ELSE insert_new(t, p.index, key, value, key_copy_ok, resized)

\* the probe loop and what follows it
insert_probe(t, key, value, key_copy_ok, resized) ==
    insert_at(t, Find(t, key), key, value, key_copy_ok, resized)

\* r is what hash_table_resize returned: a failure ends the insert
insert_resized(r, key, value, key_copy_ok) ==
    IF r.ret # 0 THEN Outcome(r.table, 1, <<>>, r.fail, FALSE, FALSE)
    ELSE insert_probe(r.table, key, value, key_copy_ok, TRUE)

\* the call is refused with the success code: a faulty argument test
insert_invalid_accepted(t) == Outcome(t, 0, <<>>, "invalid_argument", FALSE, FALSE)

\* table == NULL || key == NULL: return 1
insert_invalid(t) == Outcome(t, 1, <<>>, "invalid_argument", FALSE, FALSE)

hash_table_insert(t, key, value, resize_failed, key_copy_ok) ==
    IF InvalidArguments(t, key) THEN insert_invalid(t)
    ELSE IF NeedsResize(t)
    THEN insert_resized(hash_table_resize(t, NewCapacity(t), resize_failed),
                        key, value, key_copy_ok)
    ELSE insert_probe(t, key, value, key_copy_ok, FALSE)

(***************************************************************************)
(* hash_table_insert_copy.  value is the caller's pointer, value_copy is    *)
(* what malloc(value_size) returned.                                       *)
(***************************************************************************)
\* if the insert failed, the copy is freed
\* a faulty variant: the copy is not freed when insert failed
keep_copy_on_failure(r) == [r EXCEPT !.copy_freed = FALSE]

\* if (result != 0) free(value_copy)
free_copy_on_failure(r) == [r EXCEPT !.copy_freed = (r.ret # 0)]

\* a faulty insert_copy: the caller's pointer is stored, not the copy
insert_copy_stores_original(t, key, value, value_copy, resize_failed, key_copy_ok) ==
    IF InvalidArguments(t, key) \/ value = NULL THEN insert_invalid(t)
    ELSE IF value_copy = NULL
    THEN Outcome(t, 1, <<>>, "value_alloc", FALSE, FALSE)
    ELSE free_copy_on_failure(
             hash_table_insert(t, key, value, resize_failed, key_copy_ok))

hash_table_insert_copy(t, key, value, value_copy, resize_failed, key_copy_ok) ==
    IF InvalidArguments(t, key) \/ value = NULL THEN insert_invalid(t)
    ELSE IF value_copy = NULL
    THEN Outcome(t, 1, <<>>, "value_alloc", FALSE, FALSE)
    ELSE free_copy_on_failure(
             hash_table_insert(t, key, value_copy, resize_failed, key_copy_ok))

(***************************************************************************)
(* hash_table_remove and hash_table_clear.                                 *)
(***************************************************************************)
\* a faulty release: the slot is marked empty and size is left as it was
remove_slot_keeps_size(t, index) ==
    [t EXCEPT !.keys[index] = NULL_KEY,
              !.key_sizes[index] = 0,
              !.values[index] = NULL]

\* the matching slot is released and marked empty
remove_slot(t, index) ==
    [t EXCEPT !.keys[index] = NULL_KEY,
              !.key_sizes[index] = 0,
              !.values[index] = NULL,
              !.size = @ - 1]

\* a faulty remove: the value of the slot after the matching one is destroyed
remove_at_destroys_next(t, p) ==
    IF p.found
    THEN [table |-> remove_slot(t, p.index),
          destroyed |-> <<DestroyValue(t, t.values[(p.index + 1) % t.capacity])>>,
          freed_keys |-> <<t.keys[p.index]>>, hit |-> TRUE]
    ELSE [table |-> t, destroyed |-> <<>>, freed_keys |-> <<>>, hit |-> FALSE]

\* a faulty remove: size is decreased after the loop, found or not
remove_at_counts_always(t, p) ==
    IF p.found
    THEN [table |-> remove_slot(t, p.index),
          destroyed |-> <<DestroyValue(t, t.values[p.index])>>,
          freed_keys |-> <<t.keys[p.index]>>, hit |-> TRUE]
    ELSE [table |-> [t EXCEPT !.size = @ - 1], destroyed |-> <<>>,
          freed_keys |-> <<>>, hit |-> FALSE]

\* after the probe p: release the slot of the key, if the key was found
remove_at(t, p) ==
    IF p.found
    THEN [table |-> remove_slot(t, p.index),
          destroyed |-> <<DestroyValue(t, t.values[p.index])>>,
          freed_keys |-> <<t.keys[p.index]>>, hit |-> TRUE]
    ELSE [table |-> t, destroyed |-> <<>>, freed_keys |-> <<>>, hit |-> FALSE]

\* nothing was released
remove_nothing(t) == [table |-> t, destroyed |-> <<>>, freed_keys |-> <<>>, hit |-> FALSE]

hash_table_remove(t, key) ==
    IF InvalidArguments(t, key) THEN remove_nothing(t) ELSE remove_at(t, Find(t, key))

RECURSIVE clear_loop(_, _, _, _)
clear_loop(t, i, dest, freed) ==
    IF i >= t.capacity
    THEN [table |-> [t EXCEPT !.size = 0], destroyed |-> dest, freed_keys |-> freed]
    ELSE IF t.keys[i] # NULL_KEY
    THEN clear_loop([t EXCEPT !.keys[i] = NULL_KEY, !.values[i] = NULL], i + 1,
                    Append(dest, DestroyValue(t, t.values[i])),
                    Append(freed, t.keys[i]))
    ELSE clear_loop(t, i + 1, dest, freed)

\* a faulty loop: it starts at slot 1 and leaves slot 0 alone
hash_table_clear_from_one(t) ==
    IF t = NULL_TABLE THEN [table |-> t, destroyed |-> <<>>, freed_keys |-> <<>>]
    ELSE clear_loop(t, 1, <<>>, <<>>)

\* a faulty variant: the last statement, table->size = 0, is missing
hash_table_clear_keeps_size(t) ==
    IF t = NULL_TABLE THEN [table |-> t, destroyed |-> <<>>, freed_keys |-> <<>>]
    ELSE [clear_loop(t, 0, <<>>, <<>>) EXCEPT !.table.size = t.size]

hash_table_clear(t) ==
    IF t = NULL_TABLE THEN [table |-> t, destroyed |-> <<>>, freed_keys |-> <<>>]
    ELSE clear_loop(t, 0, <<>>, <<>>)

\* clear, then the arrays and the structure are freed (freed: whether they were)
destroy_cleared(r) ==
    [table |-> r.table, destroyed |-> r.destroyed, freed_keys |-> r.freed_keys,
     freed |-> TRUE]

hash_table_destroy(t) ==
    IF t = NULL_TABLE
    THEN [table |-> t, destroyed |-> <<>>, freed_keys |-> <<>>, freed |-> FALSE]
    ELSE destroy_cleared(hash_table_clear(t))

(***************************************************************************)
(* Construction.                                                           *)
(***************************************************************************)
HASH_TABLE_DEFAULT_INITIAL_CAPACITY == 16
HASH_TABLE_DEFAULT_RESIZE_THRESHOLD == <<1, 2>>
HASH_TABLE_DEFAULT_RESIZE_FACTOR == <<2, 1>>

\* a faulty constructor: the capacity field is the default whatever was requested
create_with_default_capacity(capacity, threshold, factor, destructor) ==
    [size |-> 0,
     capacity |-> HASH_TABLE_DEFAULT_INITIAL_CAPACITY,
     resize_threshold |-> threshold,
     resize_factor |-> factor,
     value_destructor |-> destructor,
     keys |-> [i \in 0..(capacity - 1) |-> NULL_KEY],
     key_sizes |-> [i \in 0..(capacity - 1) |-> 0],
     values |-> [i \in 0..(capacity - 1) |-> NULL]]

hash_table_create_with_parameters_and_destructor(capacity, threshold, factor, destructor) ==
    [size |-> 0,
     capacity |-> capacity,
     resize_threshold |-> threshold,
     resize_factor |-> factor,
     value_destructor |-> destructor,
     keys |-> [i \in 0..(capacity - 1) |-> NULL_KEY],
     key_sizes |-> [i \in 0..(capacity - 1) |-> 0],
     values |-> [i \in 0..(capacity - 1) |-> NULL]]

hash_table_create_with_parameters(capacity, threshold, factor) ==
    hash_table_create_with_parameters_and_destructor(capacity, threshold, factor, FALSE)

hash_table_create ==
    hash_table_create_with_parameters_and_destructor(
        HASH_TABLE_DEFAULT_INITIAL_CAPACITY, HASH_TABLE_DEFAULT_RESIZE_THRESHOLD,
        HASH_TABLE_DEFAULT_RESIZE_FACTOR, FALSE)

\* destructor: the callback given (TRUE) or NULL (FALSE)
hash_table_create_with_destructor(destructor) ==
    hash_table_create_with_parameters_and_destructor(
        HASH_TABLE_DEFAULT_INITIAL_CAPACITY, HASH_TABLE_DEFAULT_RESIZE_THRESHOLD,
        HASH_TABLE_DEFAULT_RESIZE_FACTOR, destructor)

(***************************************************************************)
(* The caller's memory.  CALLER_VALUE is the pointer to the caller's own   *)
(* value object, the one insert_copy copies from; the pointers in Values   *)
(* are what malloc returns.  An object that was never written holds        *)
(* Uninitialised.                                                          *)
(***************************************************************************)
CALLER_VALUE == MaxVal + 1
Contents == {10, 20}
Uninitialised == NULL - 1

\* The memory is followed in CallerSpec only; elsewhere it stays as it is here.
\* copied is history: per key, what the caller's value object held when
\* insert_copy last stored the key.
NoHeap ==
    [key_buffer |-> <<>>,
     values |-> [p \in 1..CALLER_VALUE |-> Uninitialised],
     copied |-> <<>>]

\* memcpy(dst, src, n) on byte buffers: the first n bytes of src
memcpy(src, n) == SubSeq(src, 1, n)

\* The table as its key pointers read: a slot whose key pointer is the caller's
\* buffer holds whatever bytes the buffer holds now.
Resolve(t, h) ==
    [t EXCEPT !.keys = [i \in DOMAIN t.keys |->
                          IF t.keys[i] = CALLER_KEY
                          THEN memcpy(h.key_buffer, t.key_sizes[i])
                          ELSE t.keys[i]]]

\* the names of the two insert functions
InsertNames == {"insert", "insert_copy"}

\* No call is in progress.
Idle ==
    [pc |-> "idle", name |-> "none", key |-> NULL_KEY, value |-> NULL, index |-> 0,
     iterations |-> 0, resized |-> FALSE]

(***************************************************************************)
(* The record of the last call.                                            *)
(***************************************************************************)
Call(name, key, value, ret, fail, hit, resized, copy_freed) ==
    [name |-> name, key |-> key, value |-> value, ret |-> ret, fail |-> fail,
     hit |-> hit, resized |-> resized, copy_freed |-> copy_freed]

\* value pointers the table owns
StoredValues(t) == {t.values[i] : i \in 0..(t.capacity - 1)} \ {NULL}

Occupied(t) == {i \in 0..(t.capacity - 1) : t.keys[i] # NULL_KEY}

Init ==
    /\ \E c \in Configs :
         table = hash_table_create_with_parameters_and_destructor(
                     c.capacity, c.threshold, c.factor, c.destructor)
    /\ live = TRUE
    /\ op = Call("create", NULL_KEY, NULL, 0, "none", FALSE, FALSE, FALSE)
    /\ destroyed = <<>>
    /\ freed_keys = <<>>
    /\ last_inserted = [k \in Keys |-> NoValue]
    /\ removed = {}
    /\ ever_inserted = {}
    /\ n_inserts = 0
    /\ m_removes = 0
    /\ distinct_history = TRUE
    /\ resizes = 0
    /\ heap = NoHeap
    /\ running = Idle

(***************************************************************************)
(* History bookkeeping shared by the actions.                              *)
(***************************************************************************)
NeverInserted(key) == last_inserted[key] = NoValue /\ key \notin removed

HistoryAfterInsert(key, value, ret) ==
    IF ret = 0
    THEN /\ last_inserted' = [last_inserted EXCEPT ![key] = value]
         /\ removed' = removed \ {key}
         /\ ever_inserted' = ever_inserted \cup {key}
         /\ IF distinct_history /\ NeverInserted(key)
            THEN /\ n_inserts' = n_inserts + 1
                 /\ UNCHANGED <<m_removes, distinct_history>>
            ELSE /\ distinct_history' = FALSE
                 /\ n_inserts' = 0
                 /\ m_removes' = 0
    ELSE UNCHANGED <<last_inserted, removed, ever_inserted, n_inserts, m_removes,
                     distinct_history>>

HistoryAfterRemove(key) ==
    /\ last_inserted' = [last_inserted EXCEPT ![key] = NoValue]
    /\ removed' = removed \cup {key}
    /\ UNCHANGED ever_inserted
    /\ IF distinct_history /\ last_inserted[key] # NoValue
       THEN /\ m_removes' = m_removes + 1
            /\ UNCHANGED <<n_inserts, distinct_history>>
       ELSE /\ distinct_history' = FALSE
            /\ n_inserts' = 0
            /\ m_removes' = 0

HistoryAfterClear ==
    /\ last_inserted' = [k \in Keys |-> NoValue]
    /\ distinct_history' = FALSE
    /\ n_inserts' = 0
    /\ m_removes' = 0
    /\ UNCHANGED <<removed, ever_inserted>>

HistoryUnchanged ==
    UNCHANGED <<last_inserted, removed, ever_inserted, n_inserts, m_removes,
                distinct_history>>

\* the model stops growing the table after MaxResizes resizes
WithinBounds(t) == NeedsResize(t) => resizes < MaxResizes

\* the outcomes of the calloc calls of a resize, when the call makes one
ResizeOutcomes(t) ==
    IF NeedsResize(t) /\ NewCapacity(t) > t.capacity THEN AllocOutcomes ELSE {"none"}

(***************************************************************************)
(* Actions: one per public function.  A call is made on the table or on    *)
(* the null table pointer, with a key or the null key pointer.             *)
(***************************************************************************)
\* H: the table pointers a call may be given; K: the key pointers
Handles == {table, NULL_TABLE}
KeyArgs == {KeyPool[i] : i \in 1..(NumKeys - 1)} \cup {NULL_KEY}

\* the table after a call on handle h that left t behind the handle
After(h, t) == IF h = NULL_TABLE THEN table ELSE t

\* why the call returned early, for the record of the call
Cause(h, fail) == IF h = NULL_TABLE THEN "null_table" ELSE fail

HistoryOfInsert(h, key, value, ret) ==
    IF InvalidArguments(h, key) THEN HistoryUnchanged
    ELSE HistoryAfterInsert(key, value, ret)

\* The caller hands over a value it owns: NULL or a pointer the table does not hold.
InsertCall(H, K) ==
    /\ live
    /\ WithinBounds(table)
    /\ \E h \in H, key \in K,
          value \in (Values \ StoredValues(table)) \cup {NULL},
          resize_failed \in ResizeOutcomes(table), key_copy_ok \in BOOLEAN :
         \E r \in {hash_table_insert(h, key, value, resize_failed, key_copy_ok)} :
             /\ table' = After(h, r.table)
             /\ op' = Call("insert", key, value, r.ret, Cause(h, r.fail), r.hit,
                           r.resized, FALSE)
             /\ destroyed' = r.destroyed
             /\ freed_keys' = <<>>
             /\ HistoryOfInsert(h, key, value, r.ret)
             /\ resizes' = IF r.resized THEN resizes + 1 ELSE resizes
    /\ UNCHANGED <<live, heap, running>>

\* V: the value pointers a call may be given.  malloc(value_size) returns NULL
\* or a pointer that is not in use.
InsertCopyCall(H, K, V) ==
    /\ live
    /\ WithinBounds(table)
    /\ \E h \in H, key \in K, value \in V,
          value_copy \in (Values \ StoredValues(table)) \cup {NULL},
          resize_failed \in ResizeOutcomes(table), key_copy_ok \in BOOLEAN :
         \E r \in {hash_table_insert_copy(h, key, value, value_copy, resize_failed,
                                          key_copy_ok)} :
             /\ table' = After(h, r.table)
             /\ op' = Call("insert_copy", key, value_copy, r.ret, Cause(h, r.fail),
                           r.hit, r.resized, r.copy_freed)
             /\ destroyed' = r.destroyed
             /\ freed_keys' = <<>>
             /\ HistoryOfInsert(h, key, value_copy, r.ret)
             /\ resizes' = IF r.resized THEN resizes + 1 ELSE resizes
    /\ UNCHANGED <<live, heap, running>>

RemoveCall(H, K) ==
    /\ live
    /\ \E h \in H, key \in K :
         \E r \in {hash_table_remove(h, key)} :
             /\ table' = After(h, r.table)
             /\ op' = Call("remove", key, NULL, 0, Cause(h, "none"), r.hit, FALSE, FALSE)
             /\ destroyed' = r.destroyed
             /\ freed_keys' = r.freed_keys
             /\ IF InvalidArguments(h, key) THEN HistoryUnchanged
                ELSE HistoryAfterRemove(key)
    /\ UNCHANGED <<live, resizes, heap, running>>

ClearCall(H) ==
    /\ live
    /\ \E h \in H :
         \E r \in {hash_table_clear(h)} :
             /\ table' = After(h, r.table)
             /\ op' = Call("clear", NULL_KEY, NULL, 0, Cause(h, "none"), FALSE, FALSE,
                           FALSE)
             /\ destroyed' = r.destroyed
             /\ freed_keys' = r.freed_keys
             /\ IF h = NULL_TABLE THEN HistoryUnchanged ELSE HistoryAfterClear
    /\ UNCHANGED <<live, resizes, heap, running>>

DestroyCall(H) ==
    /\ live
    /\ \E h \in H :
         \E r \in {hash_table_destroy(h)} :
             /\ table' = After(h, r.table)
             /\ op' = Call("destroy", NULL_KEY, NULL, 0, Cause(h, "none"), FALSE, FALSE,
                           FALSE)
             /\ destroyed' = r.destroyed
             /\ freed_keys' = r.freed_keys
             /\ live' = ~r.freed
             /\ IF h = NULL_TABLE THEN HistoryUnchanged ELSE HistoryAfterClear
    /\ UNCHANGED <<resizes, heap, running>>

\* whether the probe of get finds the key
Found(t, key) == ~InvalidArguments(t, key) /\ Find(t, key).found

\* a faulty get: it hands the value over and leaves NULL in the slot
GetCallTakingValue(H, K) ==
    /\ live
    /\ \E h \in H, key \in K :
         /\ op' = Call("get", key, NULL, hash_table_get(h, key), Cause(h, "none"),
                       Found(h, key), FALSE, FALSE)
         /\ table' = IF Found(h, key)
                      THEN [table EXCEPT !.values[Find(h, key).index] = NULL]
                      ELSE table
    /\ destroyed' = <<>>
    /\ freed_keys' = <<>>
    /\ HistoryUnchanged
    /\ UNCHANGED <<live, resizes, heap, running>>

\* The queries return a value; the record of the last call keeps it in ret.
GetCall(H, K) ==
    /\ live
    /\ \E h \in H, key \in K :
         op' = Call("get", key, NULL, hash_table_get(h, key), Cause(h, "none"),
                    Found(h, key), FALSE, FALSE)
    /\ destroyed' = <<>>
    /\ freed_keys' = <<>>
    /\ HistoryUnchanged
    /\ UNCHANGED <<table, live, resizes, heap, running>>

ContainsCall(H, K) ==
    /\ live
    /\ \E h \in H, key \in K :
         op' = Call("contains", key, NULL, hash_table_contains(h, key),
                    Cause(h, "none"), FALSE, FALSE, FALSE)
    /\ destroyed' = <<>>
    /\ freed_keys' = <<>>
    /\ HistoryUnchanged
    /\ UNCHANGED <<table, live, resizes, heap, running>>

SizeCall(H) ==
    /\ live
    /\ \E h \in H :
         op' = Call("size", NULL_KEY, NULL, hash_table_size(h), Cause(h, "none"),
                    FALSE, FALSE, FALSE)
    /\ destroyed' = <<>>
    /\ freed_keys' = <<>>
    /\ HistoryUnchanged
    /\ UNCHANGED <<table, live, resizes, heap, running>>

CapacityCall(H) ==
    /\ live
    /\ \E h \in H :
         op' = Call("capacity", NULL_KEY, NULL, hash_table_capacity(h),
                    Cause(h, "none"), FALSE, FALSE, FALSE)
    /\ destroyed' = <<>>
    /\ freed_keys' = <<>>
    /\ HistoryUnchanged
    /\ UNCHANGED <<table, live, resizes, heap, running>>

\* Calls on the table with a key.
Insert == InsertCall({table}, Keys)
InsertCopy == InsertCopyCall({table}, Keys, {CALLER_VALUE})
Remove == RemoveCall({table}, Keys)
Clear == ClearCall({table})
Destroy == DestroyCall({table})
Get == GetCall({table}, Keys)
Contains == ContainsCall({table}, Keys)
Size == SizeCall({table})
Capacity == CapacityCall({table})

Next ==
    \/ Insert
    \/ InsertCopy
    \/ Remove
    \/ Clear
    \/ Destroy
    \/ Get
    \/ Contains
    \/ Size
    \/ Capacity

Spec == Init /\ [][Next]_vars

\* Calls that may also be given the null table pointer or the null key pointer,
\* on a table created with the resize factor 2.0.
InsertAnyArgs == InsertCall(Handles, KeyArgs)
InsertCopyAnyArgs == InsertCopyCall(Handles, KeyArgs, {CALLER_VALUE, NULL})
RemoveAnyArgs == RemoveCall(Handles, KeyArgs)
ClearAnyArgs == ClearCall(Handles)
DestroyAnyArgs == DestroyCall(Handles)
GetAnyArgs == GetCall(Handles, KeyArgs)
ContainsAnyArgs == ContainsCall(Handles, KeyArgs)
SizeAnyArgs == SizeCall(Handles)
CapacityAnyArgs == CapacityCall(Handles)

ArgsInit == Init /\ table.resize_factor = HASH_TABLE_DEFAULT_RESIZE_FACTOR

ArgsNext ==
    \/ InsertAnyArgs
    \/ InsertCopyAnyArgs
    \/ RemoveAnyArgs
    \/ ClearAnyArgs
    \/ DestroyAnyArgs
    \/ GetAnyArgs
    \/ ContainsAnyArgs
    \/ SizeAnyArgs
    \/ CapacityAnyArgs

ArgsSpec == ArgsInit /\ [][ArgsNext]_vars

(***************************************************************************)
(* Construction as a step: from no table, one of the four constructors is  *)
(* called; the queries then read the new table.                            *)
(***************************************************************************)
CreateCapacities == 1..MaxInitialCapacity
CreateThresholds == {<<1, 2>>, <<3, 4>>, <<1, 1>>}
CreateFactors == {<<3, 2>>, <<2, 1>>}

\* the constructor calls: the function, the capacity asked for, the table returned
Constructions ==
    {[name |-> "create", capacity |-> HASH_TABLE_DEFAULT_INITIAL_CAPACITY,
      table |-> hash_table_create]}
    \cup {[name |-> "create_with_destructor",
           capacity |-> HASH_TABLE_DEFAULT_INITIAL_CAPACITY,
           table |-> hash_table_create_with_destructor(d)] : d \in BOOLEAN}
    \cup {[name |-> "create_with_parameters", capacity |-> a[1],
           table |-> hash_table_create_with_parameters(a[1], a[2], a[3])] :
             a \in CreateCapacities \X CreateThresholds \X CreateFactors}
    \cup {[name |-> "create_with_parameters_and_destructor", capacity |-> a[1],
           table |-> hash_table_create_with_parameters_and_destructor(
                         a[1], a[2], a[3], a[4])] :
             a \in CreateCapacities \X CreateThresholds \X CreateFactors \X BOOLEAN}

CreateNames == {c.name : c \in Constructions}

\* The allocation of the constructor that returned NULL: the malloc of the
\* structure ("table"), one of the three calloc calls, or none.
CreateAllocOutcomes == {"none", "table", "keys", "key_sizes", "values"}

NULL_ARRAY == [i \in {} |-> NULL]   \* an array pointer that is NULL
CRASHED == [crashed |-> TRUE]       \* the call did not return: the process was ended

\* t is the table the constructor builds when every allocation succeeds.  The
\* results are never tested: when the malloc of the structure fails the
\* stores through the null pointer are undefined (the process is ended, or
\* the call comes back with NULL); when a calloc fails the table is returned
\* with that array missing.
create_outcomes(t, failed) ==
    IF failed = "none" THEN {t}
    ELSE IF failed = "table" THEN {CRASHED, NULL_TABLE}
    ELSE IF failed = "keys" THEN {[t EXCEPT !.keys = NULL_ARRAY]}
    ELSE IF failed = "key_sizes" THEN {[t EXCEPT !.key_sizes = NULL_ARRAY]}
    ELSE {[t EXCEPT !.values = NULL_ARRAY]}

\* the three arrays of the table were allocated
ArraysPresent(t) ==
    /\ t.keys # NULL_ARRAY
    /\ t.key_sizes # NULL_ARRAY
    /\ t.values # NULL_ARRAY

NoTableInit ==
    /\ table = NULL_TABLE
    /\ live = FALSE
    /\ op = Call("none", NULL_KEY, NULL, 0, "none", FALSE, FALSE, FALSE)
    /\ destroyed = <<>>
    /\ freed_keys = <<>>
    /\ last_inserted = [k \in Keys |-> NoValue]
    /\ removed = {}
    /\ ever_inserted = {}
    /\ n_inserts = 0
    /\ m_removes = 0
    /\ distinct_history = TRUE
    /\ resizes = 0
    /\ heap = NoHeap
    /\ running = Idle

\* The record of the call keeps the capacity asked for in its value field and
\* the allocation that failed in its fail field; table is what the call returned.
\* A table is live when the call returned one.
Create ==
    /\ ~live
    /\ table = NULL_TABLE
    /\ op.name = "none"
    /\ \E c \in Constructions, failed \in CreateAllocOutcomes :
         \E t \in create_outcomes(c.table, failed) :
             /\ table' = t
             /\ op' = Call(c.name, NULL_KEY, c.capacity, 0, failed, FALSE, FALSE, FALSE)
             /\ live' = (t \notin {CRASHED, NULL_TABLE})
    /\ destroyed' = <<>>
    /\ freed_keys' = <<>>
    /\ HistoryUnchanged
    /\ UNCHANGED <<resizes, heap, running>>

\* get and contains read the arrays: they are followed on a table that has them
CreateNext ==
    \/ Create
    \/ Size
    \/ Capacity
    \/ live /\ ArraysPresent(table) /\ Get
    \/ live /\ ArraysPresent(table) /\ Contains

CreateSpec == NoTableInit /\ [][CreateNext]_vars

(***************************************************************************)
(* The default-table scenario: hash_table_create(), then inserts of        *)
(* distinct string keys, each with a value of its own, every allocation    *)
(* succeeding, and lookups in between.                                     *)
(***************************************************************************)
\* the value pointer inserted with "key_i"
ScenarioValue(key) == key[5] - 47

ScenarioInit ==
    /\ table = hash_table_create
    /\ live = TRUE
    /\ op = Call("create", NULL_KEY, HASH_TABLE_DEFAULT_INITIAL_CAPACITY, 0, "none",
                 FALSE, FALSE, FALSE)
    /\ destroyed = <<>>
    /\ freed_keys = <<>>
    /\ last_inserted = [k \in ScenarioKeys |-> NoValue]
    /\ removed = {}
    /\ ever_inserted = {}
    /\ n_inserts = 0
    /\ m_removes = 0
    /\ distinct_history = TRUE
    /\ resizes = 0
    /\ heap = NoHeap
    /\ running = Idle

ScenarioInsert ==
    /\ live
    /\ WithinBounds(table)
    /\ \E key \in ScenarioKeys \ ever_inserted :
         \E r \in {hash_table_insert(table, key, ScenarioValue(key), "none", TRUE)} :
             /\ table' = r.table
             /\ op' = Call("insert", key, ScenarioValue(key), r.ret, r.fail, r.hit,
                           r.resized, FALSE)
             /\ destroyed' = r.destroyed
             /\ freed_keys' = <<>>
             /\ HistoryAfterInsert(key, ScenarioValue(key), r.ret)
             /\ resizes' = IF r.resized THEN resizes + 1 ELSE resizes
    /\ UNCHANGED <<live, heap, running>>

ScenarioGet == GetCall({table}, ScenarioKeys)

ScenarioNext ==
    \/ ScenarioInsert
    \/ ScenarioGet

ScenarioSpec == ScenarioInit /\ [][ScenarioNext]_vars

(***************************************************************************)
(* String keys.  A string argument is the memory its pointer points at: the *)
(* bytes up to the first 0 are the string, what follows is other memory.   *)
(***************************************************************************)
RECURSIVE strlen_from(_, _)
strlen_from(s, i) == IF s[i] = 0 THEN i - 1 ELSE strlen_from(s, i + 1)

strlen(s) == strlen_from(s, 1)

\* a faulty key: the terminator is not counted
string_key_without_terminator(key) == memcpy(key, strlen(key))

\* the key the wrappers pass on: key, strlen(key) + 1
string_key(key) == memcpy(key, strlen(key) + 1)

hash_table_insert_string(t, key, value, resize_failed, key_copy_ok) ==
    IF key = NULL_KEY THEN insert_invalid(t)
    ELSE hash_table_insert(t, string_key(key), value, resize_failed, key_copy_ok)

hash_table_insert_copy_string(t, key, value, value_copy, resize_failed, key_copy_ok) ==
    IF key = NULL_KEY THEN insert_invalid(t)
    ELSE hash_table_insert_copy(t, string_key(key), value, value_copy, resize_failed,
                                key_copy_ok)

hash_table_get_string(t, key) ==
    IF key = NULL_KEY THEN NULL ELSE hash_table_get(t, string_key(key))

hash_table_remove_string(t, key) ==
    IF key = NULL_KEY THEN remove_nothing(t) ELSE hash_table_remove(t, string_key(key))

hash_table_contains_string(t, key) ==
    IF key = NULL_KEY THEN 0 ELSE hash_table_contains(t, string_key(key))

\* "a", "", and "a" followed in memory by other bytes
StringBuffers == {<<97, 0>>, <<0>>, <<97, 0, 98, 0>>}
StringArgs == StringBuffers \cup {NULL_KEY}

\* generic keys next to them: "a" without and with its terminator
RawKeys == {<<97>>, <<97, 0>>}

StringInit ==
    /\ table = hash_table_create_with_parameters(
                   2, HASH_TABLE_DEFAULT_RESIZE_THRESHOLD, HASH_TABLE_DEFAULT_RESIZE_FACTOR)
    /\ live = TRUE
    /\ op = Call("create", NULL_KEY, NULL, 0, "none", FALSE, FALSE, FALSE)
    /\ destroyed = <<>>
    /\ freed_keys = <<>>
    /\ last_inserted = [k \in {KeyPool[i] : i \in 1..Len(KeyPool)} |-> NoValue]
    /\ removed = {}
    /\ ever_inserted = {}
    /\ n_inserts = 0
    /\ m_removes = 0
    /\ distinct_history = TRUE
    /\ resizes = 0
    /\ heap = NoHeap
    /\ running = Idle

\* the history after an insert through a wrapper
HistoryOfInsertString(key, value, ret) ==
    IF key = NULL_KEY THEN HistoryUnchanged
    ELSE HistoryAfterInsert(string_key(key), value, ret)

InsertString ==
    /\ live
    /\ WithinBounds(table)
    /\ \E key \in StringArgs,
          value \in (Values \ StoredValues(table)) \cup {NULL},
          resize_failed \in ResizeOutcomes(table), key_copy_ok \in BOOLEAN :
         \E r \in {hash_table_insert_string(table, key, value, resize_failed,
                                            key_copy_ok)} :
             /\ table' = r.table
             /\ op' = Call("insert_string", key, value, r.ret, r.fail, r.hit, r.resized,
                           FALSE)
             /\ destroyed' = r.destroyed
             /\ HistoryOfInsertString(key, value, r.ret)
             /\ resizes' = IF r.resized THEN resizes + 1 ELSE resizes
    /\ freed_keys' = <<>>
    /\ UNCHANGED <<live, heap, running>>

InsertCopyString ==
    /\ live
    /\ WithinBounds(table)
    /\ \E key \in StringArgs,
          value_copy \in (Values \ StoredValues(table)) \cup {NULL},
          resize_failed \in ResizeOutcomes(table), key_copy_ok \in BOOLEAN :
         \E r \in {hash_table_insert_copy_string(table, key, CALLER_VALUE, value_copy,
                                                 resize_failed, key_copy_ok)} :
             /\ table' = r.table
             /\ op' = Call("insert_copy_string", key, value_copy, r.ret, r.fail, r.hit,
                           r.resized, r.copy_freed)
             /\ destroyed' = r.destroyed
             /\ HistoryOfInsertString(key, value_copy, r.ret)
             /\ resizes' = IF r.resized THEN resizes + 1 ELSE resizes
    /\ freed_keys' = <<>>
    /\ UNCHANGED <<live, heap, running>>

RemoveString ==
    /\ live
    /\ \E key \in StringArgs :
         \E r \in {hash_table_remove_string(table, key)} :
             /\ table' = r.table
             /\ op' = Call("remove_string", key, NULL, 0, "none", r.hit, FALSE, FALSE)
             /\ destroyed' = r.destroyed
             /\ freed_keys' = r.freed_keys
             /\ IF key = NULL_KEY THEN HistoryUnchanged
                ELSE HistoryAfterRemove(string_key(key))
    /\ UNCHANGED <<live, resizes, heap, running>>

GetString ==
    /\ live
    /\ \E key \in StringArgs :
         op' = Call("get_string", key, NULL, hash_table_get_string(table, key), "none",
                    key # NULL_KEY /\ Found(table, string_key(key)), FALSE, FALSE)
    /\ destroyed' = <<>>
    /\ freed_keys' = <<>>
    /\ HistoryUnchanged
    /\ UNCHANGED <<table, live, resizes, heap, running>>

ContainsString ==
    /\ live
    /\ \E key \in StringArgs :
         op' = Call("contains_string", key, NULL, hash_table_contains_string(table, key),
                    "none", FALSE, FALSE, FALSE)
    /\ destroyed' = <<>>
    /\ freed_keys' = <<>>
    /\ HistoryUnchanged
    /\ UNCHANGED <<table, live, resizes, heap, running>>

RawInsert == InsertCall({table}, RawKeys)
RawRemove == RemoveCall({table}, RawKeys)
RawGet == GetCall({table}, RawKeys)

StringNext ==
    \/ InsertString
    \/ InsertCopyString
    \/ RemoveString
    \/ GetString
    \/ ContainsString
    \/ RawInsert
    \/ RawRemove
    \/ RawGet

StringSpec == StringInit /\ [][StringNext]_vars

(***************************************************************************)
(* The caller's buffers.  The caller fills a key buffer and a value        *)
(* object, inserts from them (insert with a key length up to the buffer's  *)
(* length, insert_copy from its value object), writes other bytes into     *)
(* them afterwards, and looks keys up.  Nothing is removed.                *)
(***************************************************************************)
KeyBuffers == {<<97, 0>>, <<98, 0>>}
CallerKeys == {memcpy(b, n) : b \in KeyBuffers, n \in 1..2}

CallerInit ==
    /\ table = hash_table_create_with_parameters(
                   2, HASH_TABLE_DEFAULT_RESIZE_THRESHOLD, HASH_TABLE_DEFAULT_RESIZE_FACTOR)
    /\ live = TRUE
    /\ op = Call("create", NULL_KEY, NULL, 0, "none", FALSE, FALSE, FALSE)
    /\ destroyed = <<>>
    /\ freed_keys = <<>>
    /\ last_inserted = [k \in CallerKeys |-> NoValue]
    /\ removed = {}
    /\ ever_inserted = {}
    /\ n_inserts = 0
    /\ m_removes = 0
    /\ distinct_history = TRUE
    /\ resizes = 0
    /\ heap = [NoHeap EXCEPT !.copied = [k \in CallerKeys |-> Uninitialised]]
    /\ running = Idle

\* the caller writes bytes into its key buffer
CallerWriteKey ==
    /\ live
    /\ \E b \in KeyBuffers : heap' = [heap EXCEPT !.key_buffer = b]
    /\ op' = Call("write_key", NULL_KEY, NULL, 0, "none", FALSE, FALSE, FALSE)
    /\ destroyed' = <<>>
    /\ freed_keys' = <<>>
    /\ HistoryUnchanged
    /\ UNCHANGED <<table, live, resizes, running>>

\* the caller writes its value object
CallerWriteValue ==
    /\ live
    /\ \E c \in Contents : heap' = [heap EXCEPT !.values[CALLER_VALUE] = c]
    /\ op' = Call("write_value", NULL_KEY, NULL, 0, "none", FALSE, FALSE, FALSE)
    /\ destroyed' = <<>>
    /\ freed_keys' = <<>>
    /\ HistoryUnchanged
    /\ UNCHANGED <<table, live, resizes, running>>

\* history: key now has a value that insert_copy did not make
NotCopied(h, key, ret) ==
    IF ret = 0 THEN [h EXCEPT !.copied[key] = Uninitialised] ELSE h

\* insert(table, key_buffer, key_size, value) with a value the caller owns
CallerInsert ==
    /\ live
    /\ heap.key_buffer # <<>>
    /\ WithinBounds(table)
    /\ \E key_size \in 1..Len(heap.key_buffer),
          value \in (Values \ StoredValues(table)) \cup {NULL},
          resize_failed \in ResizeOutcomes(table), key_copy_ok \in BOOLEAN :
         \E r \in {hash_table_insert(Resolve(table, heap),
                                     memcpy(heap.key_buffer, key_size), value,
                                     resize_failed, key_copy_ok)} :
             /\ table' = r.table
             /\ op' = Call("insert", memcpy(heap.key_buffer, key_size), value, r.ret,
                           r.fail, r.hit, r.resized, FALSE)
             /\ destroyed' = r.destroyed
             /\ HistoryAfterInsert(memcpy(heap.key_buffer, key_size), value, r.ret)
             /\ resizes' = IF r.resized THEN resizes + 1 ELSE resizes
             /\ heap' = NotCopied(heap, memcpy(heap.key_buffer, key_size), r.ret)
    /\ freed_keys' = <<>>
    /\ UNCHANGED <<live, running>>

\* memcpy(value_copy, value, value_size), and the history of what was copied
CopyValue(h, key, value_copy, ret) ==
    IF value_copy = NULL THEN h
    ELSE IF ret = 0
    THEN [h EXCEPT !.values[value_copy] = h.values[CALLER_VALUE],
                   !.copied[key] = h.values[CALLER_VALUE]]
    ELSE [h EXCEPT !.values[value_copy] = h.values[CALLER_VALUE]]

\* insert_copy(table, key_buffer, key_size, &value, sizeof value)
CallerInsertCopy ==
    /\ live
    /\ heap.key_buffer # <<>>
    /\ heap.values[CALLER_VALUE] # Uninitialised
    /\ WithinBounds(table)
    /\ \E key_size \in 1..Len(heap.key_buffer),
          value_copy \in (Values \ StoredValues(table)) \cup {NULL},
          resize_failed \in ResizeOutcomes(table), key_copy_ok \in BOOLEAN :
         \E r \in {hash_table_insert_copy(Resolve(table, heap),
                                          memcpy(heap.key_buffer, key_size),
                                          CALLER_VALUE, value_copy, resize_failed,
                                          key_copy_ok)} :
             /\ table' = r.table
             /\ op' = Call("insert_copy", memcpy(heap.key_buffer, key_size), value_copy,
                           r.ret, r.fail, r.hit, r.resized, r.copy_freed)
             /\ destroyed' = r.destroyed
             /\ HistoryAfterInsert(memcpy(heap.key_buffer, key_size), value_copy, r.ret)
             /\ resizes' = IF r.resized THEN resizes + 1 ELSE resizes
             /\ heap' = CopyValue(heap, memcpy(heap.key_buffer, key_size), value_copy,
                                  r.ret)
    /\ freed_keys' = <<>>
    /\ UNCHANGED <<live, running>>

CallerGet == GetCall({Resolve(table, heap)}, CallerKeys)

CallerNext ==
    \/ CallerWriteKey
    \/ CallerWriteValue
    \/ CallerInsert
    \/ CallerInsertCopy
    \/ CallerGet

CallerSpec == CallerInit /\ [][CallerNext]_vars

(***************************************************************************)
(* The calls, statement by statement.  A call begins, its loop runs one    *)
(* iteration per step, and the call returns; no other call runs meanwhile. *)
(* The scan loop is the one of get (which contains calls), remove and      *)
(* insert; the slot loop is the one of clear (which destroy calls).  The   *)
(* growth step of insert is taken as a whole when insert begins.           *)
(***************************************************************************)
Scan(name, key, value, capacity, resized) ==
    [pc |-> "scan", name |-> name, key |-> key, value |-> value,
     index |-> HomeIndex(key, capacity), iterations |-> 0, resized |-> resized]

StepInit == Init /\ table.resize_threshold = <<1, 1>>

\* the keys inserted and removed; get and contains are also asked for another
StepKeys == {KeyPool[i] : i \in 1..(NumKeys - 1)}

\* the record of a call that has begun and not returned yet
Begun(name, key, value) == Call(name, key, value, 0, "running", FALSE, FALSE, FALSE)

\* get, contains or remove is called: index and iterations are set
BeginScan ==
    /\ live /\ running.pc = "idle"
    /\ \E name \in {"get", "contains", "remove"}, key \in Keys :
         /\ name = "remove" => key \in StepKeys
         /\ running' = Scan(name, key, NULL, table.capacity, FALSE)
         /\ op' = Begun(name, key, NULL)
    /\ destroyed' = <<>>
    /\ freed_keys' = <<>>
    /\ HistoryUnchanged
    /\ UNCHANGED <<table, live, resizes, heap>>

\* t as insert scans it: after the growth step when the growth test holds
Grown(t) ==
    IF NeedsResize(t) THEN hash_table_resize(t, NewCapacity(t), "none")
    ELSE [table |-> t, ret |-> 0, fail |-> "none"]

\* insert or insert_copy is called, any growth succeeds: the scan begins
BeginInsert ==
    /\ live /\ running.pc = "idle"
    /\ WithinBounds(table)
    /\ Grown(table).ret = 0
    /\ \E name \in InsertNames, key \in StepKeys,
          value \in (Values \ StoredValues(table)) \cup {NULL} :
         /\ name = "insert_copy" => value # NULL
         /\ running' = Scan(name, key, value, Grown(table).table.capacity,
                            NeedsResize(table))
         /\ op' = Begun(name, key, value)
    /\ table' = Grown(table).table
    /\ resizes' = IF NeedsResize(table) THEN resizes + 1 ELSE resizes
    /\ destroyed' = <<>>
    /\ freed_keys' = <<>>
    /\ HistoryUnchanged
    /\ UNCHANGED <<live, heap>>

\* insert or insert_copy is called and the growth step fails: 1 is returned
InsertGrowFails ==
    /\ live /\ running.pc = "idle"
    /\ WithinBounds(table)
    /\ NeedsResize(table)
    /\ \E name \in InsertNames, key \in StepKeys,
          value \in (Values \ StoredValues(table)) \cup {NULL},
          failed \in ResizeOutcomes(table) :
         \E r \in {hash_table_resize(table, NewCapacity(table), failed)} :
             /\ name = "insert_copy" => value # NULL
             /\ r.ret # 0
             /\ table' = r.table
             /\ op' = Call(name, key, value, 1, r.fail, FALSE, FALSE,
                           name = "insert_copy")
    /\ destroyed' = <<>>
    /\ freed_keys' = <<>>
    /\ HistoryUnchanged
    /\ UNCHANGED <<live, resizes, heap, running>>

\* insert_copy is called and malloc(value_size) returns NULL: 1 is returned
InsertCopyNoMemory ==
    /\ live /\ running.pc = "idle"
    /\ \E key \in StepKeys :
         op' = Call("insert_copy", key, NULL, 1, "value_alloc", FALSE, FALSE, FALSE)
    /\ destroyed' = <<>>
    /\ freed_keys' = <<>>
    /\ HistoryUnchanged
    /\ UNCHANGED <<table, live, resizes, heap, running>>

\* the loop condition: keys[index] != NULL && iterations < capacity
ScanContinues ==
    table.keys[running.index] # NULL_KEY /\ running.iterations < table.capacity

\* the slot at index holds the key of the call
ScanMatches == ScanContinues /\ KeyMatches(table, running.index, running.key)

\* what the scan found when it ended
ScanResult ==
    [found |-> ScanMatches, index |-> running.index, iterations |-> running.iterations]

\* a faulty iteration: iterations is not incremented
ScanStepNotCounting ==
    /\ running.pc = "scan"
    /\ ScanContinues /\ ~ScanMatches
    /\ running' = [running EXCEPT !.index = (@ + 1) % table.capacity]
    /\ HistoryUnchanged
    /\ UNCHANGED <<table, live, op, destroyed, freed_keys, resizes, heap>>

\* one iteration over a slot that holds another key
ScanStep ==
    /\ running.pc = "scan"
    /\ ScanContinues /\ ~ScanMatches
    /\ running' = [running EXCEPT !.index = (@ + 1) % table.capacity,
                                  !.iterations = @ + 1]
    /\ HistoryUnchanged
    /\ UNCHANGED <<table, live, op, destroyed, freed_keys, resizes, heap>>

\* get or contains returns
EndQuery ==
    /\ running.pc = "scan" /\ running.name \in {"get", "contains"}
    /\ ScanMatches \/ ~ScanContinues
    /\ op' = IF running.name = "get"
             THEN Call("get", running.key, NULL, value_at(table, ScanResult), "none",
                       ScanResult.found, FALSE, FALSE)
             ELSE Call("contains", running.key, NULL,
                       IF value_at(table, ScanResult) # NULL THEN 1 ELSE 0, "none",
                       FALSE, FALSE, FALSE)
    /\ running' = Idle
    /\ destroyed' = <<>>
    /\ freed_keys' = <<>>
    /\ HistoryUnchanged
    /\ UNCHANGED <<table, live, resizes, heap>>

\* remove releases the slot it found and returns
EndRemove ==
    /\ running.pc = "scan" /\ running.name = "remove"
    /\ ScanMatches \/ ~ScanContinues
    /\ \E r \in {remove_at(table, ScanResult)} :
         /\ table' = r.table
         /\ op' = Call("remove", running.key, NULL, 0, "none", r.hit, FALSE, FALSE)
         /\ destroyed' = r.destroyed
         /\ freed_keys' = r.freed_keys
    /\ running' = Idle
    /\ HistoryAfterRemove(running.key)
    /\ UNCHANGED <<live, resizes, heap>>

\* what insert does after its scan; insert_copy frees its copy on failure
InsertAfterScan(key_copy_ok) ==
    IF running.name = "insert_copy"
    THEN free_copy_on_failure(insert_at(table, ScanResult, running.key, running.value,
                                        key_copy_ok, running.resized))
    ELSE insert_at(table, ScanResult, running.key, running.value, key_copy_ok,
                   running.resized)

\* insert or insert_copy updates or fills the slot and returns
EndInsert ==
    /\ running.pc = "scan" /\ running.name \in InsertNames
    /\ ScanMatches \/ ~ScanContinues
    /\ \E key_copy_ok \in BOOLEAN :
         \E r \in {InsertAfterScan(key_copy_ok)} :
             /\ table' = r.table
             /\ op' = Call(running.name, running.key, running.value, r.ret, r.fail,
                           r.hit, r.resized, r.copy_freed)
             /\ destroyed' = r.destroyed
             /\ HistoryAfterInsert(running.key, running.value, r.ret)
    /\ running' = Idle
    /\ freed_keys' = <<>>
    /\ UNCHANGED <<live, resizes, heap>>

\* clear or destroy is called: i = 0
BeginClear ==
    /\ live /\ running.pc = "idle"
    /\ \E name \in {"clear", "destroy"} :
         /\ running' = [Idle EXCEPT !.pc = "clear", !.name = name]
         /\ op' = Begun(name, NULL_KEY, NULL)
    /\ destroyed' = <<>>
    /\ freed_keys' = <<>>
    /\ HistoryUnchanged
    /\ UNCHANGED <<table, live, resizes, heap>>

\* one iteration of the slot loop: an occupied slot is released
ClearStep ==
    /\ running.pc = "clear"
    /\ running.index < table.capacity
    /\ IF table.keys[running.index] # NULL_KEY
       THEN /\ table' = [table EXCEPT !.keys[running.index] = NULL_KEY,
                                      !.values[running.index] = NULL]
            /\ destroyed' = Append(destroyed,
                                   DestroyValue(table, table.values[running.index]))
            /\ freed_keys' = Append(freed_keys, table.keys[running.index])
       ELSE UNCHANGED <<table, destroyed, freed_keys>>
    /\ running' = [running EXCEPT !.index = @ + 1]
    /\ HistoryUnchanged
    /\ UNCHANGED <<live, op, resizes, heap>>

\* the slot loop is over: size = 0; destroy then frees the arrays and the table
ClearEnd ==
    /\ running.pc = "clear"
    /\ running.index >= table.capacity
    /\ table' = [table EXCEPT !.size = 0]
    /\ op' = Call(running.name, NULL_KEY, NULL, 0, "none", FALSE, FALSE, FALSE)
    /\ live' = (running.name # "destroy")
    /\ running' = Idle
    /\ HistoryAfterClear
    /\ UNCHANGED <<destroyed, freed_keys, resizes, heap>>

StepNext ==
    \/ BeginScan
    \/ BeginInsert
    \/ InsertGrowFails
    \/ InsertCopyNoMemory
    \/ ScanStep
    \/ EndQuery
    \/ EndRemove
    \/ EndInsert
    \/ BeginClear
    \/ ClearStep
    \/ ClearEnd

\* a call in progress keeps running: its next statement is executed
StepFairness ==
    /\ WF_vars(ScanStep)
    /\ WF_vars(EndQuery)
    /\ WF_vars(EndRemove)
    /\ WF_vars(EndInsert)
    /\ WF_vars(ClearStep)
    /\ WF_vars(ClearEnd)

StepSpec == StepInit /\ [][StepNext]_vars /\ StepFairness

(***************************************************************************)
(* The key of length 0.  insert(table, key, 0, value) with a key pointer   *)
(* that is not NULL: malloc(0) returns NULL (the insert fails) or a        *)
(* pointer, and the slot then holds a key pointer that is not NULL with    *)
(* the key length 0.  The other keys are one byte long; at capacity 2 the  *)
(* three keys have the same home slot.                                     *)
(***************************************************************************)
ZERO_LENGTH_KEY == <<>>

ZeroKeys == {ZERO_LENGTH_KEY, <<98>>, <<0>>}

ZeroInit ==
    /\ \E c \in Configs :
         table = hash_table_create_with_parameters_and_destructor(
                     c.capacity, c.threshold, c.factor, c.destructor)
    /\ live = TRUE
    /\ op = Call("create", NULL_KEY, NULL, 0, "none", FALSE, FALSE, FALSE)
    /\ destroyed = <<>>
    /\ freed_keys = <<>>
    /\ last_inserted = [k \in ZeroKeys |-> NoValue]
    /\ removed = {}
    /\ ever_inserted = {}
    /\ n_inserts = 0
    /\ m_removes = 0
    /\ distinct_history = TRUE
    /\ resizes = 0
    /\ heap = NoHeap
    /\ running = Idle

ZeroInsert == InsertCall({table}, ZeroKeys)
ZeroRemove == RemoveCall({table}, ZeroKeys)
ZeroGet == GetCall({table}, ZeroKeys)
ZeroContains == ContainsCall({table}, ZeroKeys)
ZeroSize == SizeCall({table})

ZeroNext ==
    \/ ZeroInsert
    \/ ZeroRemove
    \/ ZeroGet
    \/ ZeroContains
    \/ ZeroSize

ZeroSpec == ZeroInit /\ [][ZeroNext]_vars

(***************************************************************************)
(* Growth policies.  Tables of every initial capacity from 1, created with *)
(* factors above 1 and, misconfigured, with factors of at most 1.          *)
(***************************************************************************)
GrowthFactors == {<<1, 2>>, <<1, 1>>, <<3, 2>>, <<2, 1>>}

GrowthInit ==
    /\ \E capacity \in 1..MaxInitialCapacity, threshold \in {<<1, 2>>, <<1, 1>>},
          factor \in GrowthFactors :
         table = hash_table_create_with_parameters_and_destructor(
                     capacity, threshold, factor, TRUE)
    /\ live = TRUE
    /\ op = Call("create", NULL_KEY, NULL, 0, "none", FALSE, FALSE, FALSE)
    /\ destroyed = <<>>
    /\ freed_keys = <<>>
    /\ last_inserted = [k \in Keys |-> NoValue]
    /\ removed = {}
    /\ ever_inserted = {}
    /\ n_inserts = 0
    /\ m_removes = 0
    /\ distinct_history = TRUE
    /\ resizes = 0
    /\ heap = NoHeap
    /\ running = Idle

GrowthNext ==
    \/ Insert
    \/ Get
    \/ Capacity

GrowthSpec == GrowthInit /\ [][GrowthNext]_vars

(***************************************************************************)
(* Large tables.  A table of 2^24 slots is kept by its counts, not slot by *)
(* slot: occupied is the number of slots whose key pointer is not NULL.    *)
(* The keys inserted are new ones, so the scan of insert ends at an empty  *)
(* slot when there is one; when every slot is occupied it ends at the      *)
(* iteration cap, on the occupied home slot of the key.                    *)
(***************************************************************************)
LargeCapacities == {FloatExact - 1, FloatExact, FloatExact + 1, FloatExact + 3}

\* the table a constructor returns, by its counts
dense_table(capacity, threshold, factor) ==
    [size |-> 0, occupied |-> 0, capacity |-> capacity, resize_threshold |-> threshold,
     resize_factor |-> factor, value_destructor |-> TRUE]

\* the number of slots of t whose key pointer is not NULL
OccupiedCount(t) ==
    IF "occupied" \in DOMAIN t THEN t.occupied ELSE Cardinality(Occupied(t))

\* hash_table_resize: every occupied slot of the old arrays is placed in the
\* new ones and counted
resize_dense(t, new_capacity, failed) ==
    IF new_capacity <= t.capacity THEN [table |-> t, ret |-> 1, fail |-> "no_growth"]
    ELSE IF failed # "none" THEN [table |-> t, ret |-> 1, fail |-> "resize_alloc"]
    ELSE [table |-> [t EXCEPT !.capacity = new_capacity, !.size = t.occupied],
          ret |-> 0, fail |-> "none"]

\* the new-entry path: keys[index] = key_copy and size++, on the slot the scan
\* ended at, which is an empty one unless every slot is occupied
insert_dense_new(t, key_copy_ok, resized) ==
    IF ~key_copy_ok THEN Outcome(t, 1, <<>>, "key_alloc", FALSE, resized)
    ELSE Outcome([t EXCEPT !.occupied = IF @ < t.capacity THEN @ + 1 ELSE @,
                           !.size = @ + 1],
                 0, <<>>, "none", FALSE, resized)

\* r is what the growth step returned
insert_dense_resized(r, key_copy_ok) ==
    IF r.ret # 0 THEN Outcome(r.table, 1, <<>>, r.fail, FALSE, FALSE)
    ELSE insert_dense_new(r.table, key_copy_ok, TRUE)

\* hash_table_insert with a key that no slot holds
insert_dense(t, resize_failed, key_copy_ok) ==
    IF NeedsResize(t)
    THEN insert_dense_resized(resize_dense(t, NewCapacity(t), resize_failed), key_copy_ok)
    ELSE insert_dense_new(t, key_copy_ok, FALSE)

\* the allocations made for the table and not released yet: value objects
\* handed over by an insert that returned 0, and key buffers of the table
Outstanding(values, key_buffers) == [values |-> values, key_buffers |-> key_buffers]

\* hash_table_destroy: the clear loop releases the key buffer and the value of
\* every slot whose key pointer is not NULL
destroy_dense(t, h) ==
    [table |-> [t EXCEPT !.size = 0, !.occupied = 0],
     heap |-> Outstanding(h.values - t.occupied, h.key_buffers - t.occupied)]

\* the table a successful resize of t to its next capacity leaves
Resized(t) ==
    IF "occupied" \in DOMAIN t THEN resize_dense(t, NewCapacity(t), "none").table
    ELSE hash_table_resize(t, NewCapacity(t), "none").table

LargeInit ==
    /\ \E capacity \in LargeCapacities, threshold \in {<<1, 2>>, <<1, 1>>},
          factor \in {<<1, 1>>, <<3, 2>>, <<2, 1>>} :
         table = dense_table(capacity, threshold, factor)
    /\ live = TRUE
    /\ op = Call("create", NULL_KEY, NULL, 0, "none", FALSE, FALSE, FALSE)
    /\ destroyed = <<>>
    /\ freed_keys = <<>>
    /\ last_inserted = [k \in Keys |-> NoValue]
    /\ removed = {}
    /\ ever_inserted = {}
    /\ n_inserts = 0
    /\ m_removes = 0
    /\ distinct_history = TRUE
    /\ resizes = 0
    /\ heap = Outstanding(0, 0)
    /\ running = Idle

\* the sizes a new table is filled to: a little below its capacity and a
\* little below half of it
FillTargets(t) ==
    {t.capacity - g : g \in 0..NearFull} \cup {t.capacity \div 2 - g : g \in 0..NearFull}

\* A new table receives n new keys, one insert after the other, none of which
\* grows the table or meets an allocation failure: the growth test is false
\* for the last of them, so it was false for all.
LargeFill ==
    /\ live
    /\ table.size = 0 /\ table.occupied = 0
    /\ \E n \in FillTargets(table) :
         /\ ~NeedsResize([table EXCEPT !.size = n - 1])
         /\ table' = [table EXCEPT !.size = n, !.occupied = n]
         /\ heap' = Outstanding(n, n)
    /\ op' = Call("inserts", NULL_KEY, NULL, 0, "none", FALSE, FALSE, FALSE)
    /\ n_inserts' = 0
    /\ UNCHANGED <<live, destroyed, freed_keys, last_inserted, removed, ever_inserted,
                   m_removes, distinct_history, resizes, running>>

\* insert of one new key
LargeInsert ==
    /\ live
    /\ table.size > 0
    /\ n_inserts < MaxLargeInserts
    /\ WithinBounds(table)
    /\ \E resize_failed \in ResizeOutcomes(table), key_copy_ok \in BOOLEAN :
         \E r \in {insert_dense(table, resize_failed, key_copy_ok)} :
             /\ table' = r.table
             /\ op' = Call("insert", NULL_KEY, NULL, r.ret, r.fail, r.hit, r.resized,
                           FALSE)
             /\ resizes' = IF r.resized THEN resizes + 1 ELSE resizes
             /\ heap' = IF r.ret = 0
                         THEN Outstanding(heap.values + 1, heap.key_buffers + 1)
                         ELSE heap
    /\ n_inserts' = n_inserts + 1
    /\ UNCHANGED <<live, destroyed, freed_keys, last_inserted, removed, ever_inserted,
                   m_removes, distinct_history, running>>

LargeDestroy ==
    /\ live
    /\ \E r \in {destroy_dense(table, heap)} :
         /\ table' = r.table
         /\ heap' = r.heap
    /\ op' = Call("destroy", NULL_KEY, NULL, 0, "none", FALSE, FALSE, FALSE)
    /\ live' = FALSE
    /\ UNCHANGED <<destroyed, freed_keys, last_inserted, removed, ever_inserted,
                   n_inserts, m_removes, distinct_history, resizes, running>>

LargeNext ==
    \/ LargeFill
    \/ LargeInsert
    \/ LargeDestroy

LargeSpec == LargeInit /\ [][LargeNext]_vars

(***************************************************************************)
(* Properties.                                                             *)
(***************************************************************************)

\* C1: round trip.  Every key whose latest successful insert was not followed
\* by a remove of the key or a clear is found by get, with the value of that
\* insert.
C1_RoundTrip ==
    live => \A k \in Keys :
                last_inserted[k] # NoValue =>
                    hash_table_get(table, k) = last_inserted[k]

\* C2: a key that was removed and not inserted again is absent: get returns
\* NULL and contains returns 0, whatever was done to other keys meanwhile.
C2_AbsentAfterRemove ==
    live => \A k \in removed :
                /\ hash_table_get(table, k) = NULL
                /\ hash_table_contains(table, k) = 0

\* C3: remove(k) leaves every other stored key retrievable with its value.
C3_RemoveKeepsOthers ==
    [][op'.name = "remove" =>
          \A j \in Keys \ {op'.key} :
              Find(table, j).found =>
                  /\ Find(table', j).found
                  /\ hash_table_get(table', j) = hash_table_get(table, j)]_vars

\* C4: size accounting.  After N successful inserts of pairwise distinct keys
\* and M removes of distinct previously inserted keys, size is N - M.
C4_SizeAccounting ==
    (live /\ distinct_history) => hash_table_size(table) = n_inserts - m_removes

\* C5: update semantics.  A successful insert(k, v2) on a table where get finds
\* k with value v1 leaves size unchanged, destroys v1 and nothing else, exactly
\* once, and get(k) returns v2 afterwards.
C5_UpdateSemantics ==
    [][(op'.name = "insert" /\ op'.ret = 0 /\ Find(table, op'.key).found) =>
          /\ table'.size = table.size
          /\ destroyed' = <<DestroyValue(table, hash_table_get(table, op'.key))>>
          /\ hash_table_get(table', op'.key) = op'.value]_vars

\* C6: an insert or insert_copy that fails on an allocation leaves the table
\* exactly as it was: same capacity, same size, same slots.
C6_FailedInsertUnchanged ==
    [][(op'.name \in InsertNames /\ op'.ret = 1
          /\ op'.fail \in {"resize_alloc", "key_alloc", "value_alloc"}) =>
          table' = table]_vars

\* C7: when insert returns failure, the value passed is in no slot of the
\* table and was not given to the destructor or to free.
C7_FailedInsertKeepsValue ==
    (op.name = "insert" /\ op.ret # 0 /\ op.value # NULL) =>
        /\ op.value \notin StoredValues(table)
        /\ \A i \in 1..Len(destroyed) : destroyed[i][2] # op.value

C7_Witness ==
    /\ op.name = "insert" /\ op.ret # 0 /\ op.value # NULL
    /\ op.fail = "key_alloc"
    /\ table.size > 0

\* C8: when an allocation of the resize fails, resize reports failure and gives
\* back the table as it was, and the insert that called it returns failure
\* having added, updated and destroyed nothing.
C8_ResizeFailureRollsBack ==
    [][(op'.name \in InsertNames /\ op'.fail = "resize_alloc") =>
          /\ \A failed \in AllocOutcomes \ {"none"} :
                 hash_table_resize(table, NewCapacity(table), failed)
                     = [table |-> table, ret |-> 1, fail |-> "resize_alloc"]
          /\ op'.ret = 1
          /\ table' = table
          /\ destroyed' = <<>>]_vars

C8_Witness ==
    /\ op.name \in InsertNames /\ op.fail = "resize_alloc"
    /\ table.size > 0

\* the stored (key, value) pairs, slot by slot
Entries(t) == {<<i, t.keys[i], t.values[i]>> : i \in Occupied(t)}

\* C9: resize transparency.  The resize an insert performs keeps the number of
\* entries, stores every (key, value) pair that was stored, and every key that
\* get found before the resize is found with the same value right after it.
C9_ResizeTransparent ==
    [][op'.resized =>
          LET after == hash_table_resize(table, NewCapacity(table), "none").table
          IN  /\ Cardinality(Occupied(after)) = Cardinality(Occupied(table))
              /\ {<<e[2], e[3]>> : e \in Entries(after)}
                     = {<<e[2], e[3]>> : e \in Entries(table)}
              /\ \A k \in Keys :
                     Find(table, k).found =>
                         /\ Find(after, k).found
                         /\ hash_table_get(after, k) = hash_table_get(table, k)]_vars

\* C10: load-factor bound.  Right after an insert that returns success,
\* size / capacity is at most the resize threshold.
C10_LoadFactorBound ==
    (op.name \in InsertNames /\ op.ret = 0) =>
        table.size * table.resize_threshold[2]
            <= table.resize_threshold[1] * table.capacity

\* C11: in every state of a live table, size is the number of occupied slots
\* (slots whose key pointer is not NULL), and 0 <= size <= capacity.
C11_SizeIsOccupiedCount ==
    live =>
        /\ table.size = OccupiedCount(table)
        /\ 0 <= table.size
        /\ table.size <= table.capacity

C11_Witness ==
    /\ live
    /\ op.name = "remove" /\ op.hit
    /\ resizes > 0
    /\ table.size > 0

\* C12: capacity never decreases; remove and clear leave it unchanged; it
\* changes only in a call whose resize succeeded, and then it grows strictly.
C12_CapacityMonotone ==
    [][/\ table'.capacity >= table.capacity
       /\ op'.name \in {"remove", "clear"} => table'.capacity = table.capacity
       /\ table'.capacity # table.capacity =>
              /\ op'.name \in InsertNames
              /\ op'.resized
              /\ table'.capacity > table.capacity]_vars

C12_Witness ==
    /\ op.name \in InsertNames /\ op.resized
    /\ table.capacity = 3
    /\ removed # {}

\* how many calls in the sequence calls were made on the value v
CallsOn(calls, v) == Cardinality({j \in 1..Len(calls) : calls[j][2] = v})

\* C13: destroying a table that holds K occupied entries calls the configured
\* destructor (free when none is configured) exactly K times: once for each
\* occupied slot, on the value of that slot, and on nothing else.
C13_DestroyOncePerEntry ==
    [][(op'.name = "destroy" /\ op'.fail # "null_table") =>
          /\ Len(destroyed') = Cardinality(Occupied(table))
          /\ \A j \in 1..Len(destroyed') :
                 /\ destroyed'[j][1] = DestroyValue(table, NULL)[1]
                 /\ \E i \in Occupied(table) : destroyed'[j][2] = table.values[i]
          /\ \A i \in Occupied(table) :
                 CallsOn(destroyed', table.values[i])
                     = Cardinality({n \in Occupied(table) :
                                        table.values[n] = table.values[i]})]_vars

C13_Witness ==
    /\ op.name = "destroy" /\ ~live
    /\ Len(destroyed) = 3
    /\ destroyed[1][1] = "destructor"

\* C14: remove(k), when k was inserted and not removed since, frees the key
\* buffer of k, calls the destructor (or free) exactly once, on the value of
\* k, marks the slot of k empty and decreases size by exactly 1.
C14_RemoveReleasesEntry ==
    [][(/\ op'.name = "remove" /\ op'.fail # "null_table"
        /\ op'.key \in Keys
        /\ last_inserted[op'.key] # NoValue) =>
          /\ freed_keys' = <<op'.key>>
          /\ destroyed' = <<DestroyValue(table, last_inserted[op'.key])>>
          /\ \E i \in Occupied(table) \ Occupied(table') : table.keys[i] = op'.key
          /\ table'.size = table.size - 1]_vars

\* the key is stored in some slot of the table
Stored(t, key) == \E i \in Occupied(t) : t.keys[i] = key

\* C15: remove(k) for a key k that no slot of the table holds changes
\* nothing: size, capacity and every slot stay as they were, and neither the
\* destructor nor free is called.
C15_RemoveAbsentIsNoOp ==
    [][(/\ op'.name = "remove" /\ op'.fail # "null_table"
        /\ op'.key \in Keys
        /\ ~Stored(table, op'.key)) =>
          /\ table' = table
          /\ destroyed' = <<>>
          /\ freed_keys' = <<>>]_vars

\* remove("a") on a table that holds "a\0" in the home slot of "a"
C15_Witness ==
    /\ op.name = "remove" /\ ~op.hit
    /\ op.key = KeyPool[2]
    /\ ~Stored(table, KeyPool[2])
    /\ table.keys[HomeIndex(KeyPool[2], table.capacity)] = KeyPool[1]

\* C16: for a key that no insert has ever stored in the table, get returns
\* NULL and contains returns 0 in every state, also when every slot is occupied.
C16_NeverInsertedIsAbsent ==
    live => \A k \in Keys \ ever_inserted :
                /\ hash_table_get(table, k) = NULL
                /\ hash_table_contains(table, k) = 0

\* get of a never inserted key on a full table: the probe visits every slot
C16_Witness ==
    /\ live
    /\ table.size = table.capacity
    /\ op.name = "get" /\ op.key \in Keys \ ever_inserted
    /\ Find(table, op.key).iterations = table.capacity
    /\ \A i \in Occupied(table) : table.values[i] # NULL

\* C17: contains(k) returns 1 exactly when the table has the key k (the probe
\* of get finds it), and 0 otherwise, whatever value insert accepted for k.
C17_ContainsIffPresent ==
    live => \A k \in Keys :
                (hash_table_contains(table, k) = 1) <=> Found(table, k)

\* the functions that take a table, and those that also take a key
TableFunctions ==
    InsertNames \cup {"size", "capacity", "get", "contains", "remove", "clear", "destroy"}
KeyFunctions == InsertNames \cup {"get", "contains", "remove"}

\* C18: a call given the null table pointer, or a table and the null key
\* pointer, is neutral: size, capacity and contains return 0, get returns NULL,
\* insert returns failure, remove, clear and destroy do nothing, and the table
\* is left as it was (nothing stored, freed or destroyed, the table not freed).
C18_InvalidArgumentsNeutral ==
    [][(\/ op'.fail = "null_table" /\ op'.name \in TableFunctions
        \/ op'.key = NULL_KEY /\ op'.name \in KeyFunctions) =>
          /\ table' = table
          /\ live' = live
          /\ destroyed' = <<>>
          /\ freed_keys' = <<>>
          /\ op'.name \in {"size", "capacity", "contains"} => op'.ret = 0
          /\ op'.name = "get" => op'.ret = NULL
          /\ op'.name \in InsertNames => op'.ret = 1]_vars

C18_Witness ==
    /\ live
    /\ op.name = "insert" /\ op.key = NULL_KEY /\ op.fail # "null_table"
    /\ op.value # NULL
    /\ table.size > 0

QueryNames == {"get", "contains", "size", "capacity"}

\* C19: get, contains, size and capacity never change the table: size,
\* capacity and the key, key length and value of every slot are the same
\* after the call as before it, and nothing is freed or destroyed.
C19_QueriesDoNotMutate ==
    [][op'.name \in QueryNames =>
          /\ table'.size = table.size
          /\ table'.capacity = table.capacity
          /\ table'.keys = table.keys
          /\ table'.key_sizes = table.key_sizes
          /\ table'.values = table.values
          /\ live' = live
          /\ destroyed' = <<>>
          /\ freed_keys' = <<>>]_vars

C19_Witness ==
    /\ live
    /\ op.name = "get" /\ op.hit /\ op.ret # NULL
    /\ table.size > 1

\* C20: a table just created has size 0, the capacity that was asked for, and
\* every slot empty (no key, key length 0, no value); the default constructors
\* ask for capacity 16 and set the threshold 0.5 and the factor 2.0.
C20_FreshTable ==
    [][(op'.name \in CreateNames /\ op'.fail = "none") =>
          /\ table'.size = 0
          /\ table'.capacity = op'.value
          /\ DOMAIN table'.keys = 0..(op'.value - 1)
          /\ \A i \in 0..(op'.value - 1) :
                 /\ table'.keys[i] = NULL_KEY
                 /\ table'.key_sizes[i] = 0
                 /\ table'.values[i] = NULL
          /\ op'.name \in {"create", "create_with_destructor"} =>
                 /\ table'.capacity = 16
                 /\ table'.resize_threshold = <<1, 2>>
                 /\ table'.resize_factor = <<2, 1>>]_vars

\* the default table, read back by hash_table_capacity
C20_Witness ==
    /\ live
    /\ op.name = "capacity" /\ op.ret = 16
    /\ table.size = 0
    /\ ~table.value_destructor
    /\ ArraysPresent(table)

\* C21: when an allocation of a constructor fails (the structure or one of
\* the three arrays), the constructor returns NULL; it never returns a table
\* with a missing array.
C21_CreateFailureReturnsNull ==
    [][op'.name \in CreateNames =>
          /\ op'.fail # "none" => table' = NULL_TABLE
          /\ table' \notin {NULL_TABLE, CRASHED} => ArraysPresent(table')]_vars

\* C22: on the default table (capacity 16, threshold 0.5, factor 2.0), once 9
\* distinct keys are inserted exactly one resize has happened, to capacity 32,
\* and every inserted key is found by get with its value; up to the 9th insert
\* there is at most that one resize.
C22_NineInsertsOneResize ==
    live =>
        /\ resizes <= 1
        /\ Cardinality(ever_inserted) >= 9 =>
               /\ resizes = 1
               /\ table.capacity = 32
               /\ table.size = Cardinality(ever_inserted)
               /\ \A k \in ever_inserted :
                      hash_table_get(table, k) = ScenarioValue(k)

C22_Witness ==
    /\ Cardinality(ever_inserted) = 9
    /\ op.name = "insert" /\ op.resized /\ op.ret = 0
    /\ table.capacity = 32

\* the bytes of a are the first bytes of the longer key b
IsPrefix(a, b) == Len(a) < Len(b) /\ SubSeq(b, 1, Len(a)) = a

\* C23: key equality is length plus bytes.  The slot that get, insert or
\* remove matches for a key holds that very key, never a key of another
\* length with the same first bytes; and after two keys of which one is a
\* prefix of the other have both been inserted into a new table, the table
\* has two entries and get finds each key with its own value.
C23_KeyIsLengthAndBytes ==
    live =>
        /\ \A k \in Keys : Found(table, k) => table.keys[Find(table, k).index] = k
        /\ op.name = "remove" => \A i \in 1..Len(freed_keys) : freed_keys[i] = op.key
        /\ (op.name \in InsertNames /\ op.hit) => Stored(table, op.key)
        /\ \A a, b \in Keys :
               (/\ IsPrefix(a, b)
                /\ distinct_history /\ n_inserts = 2 /\ m_removes = 0
                /\ ever_inserted = {a, b}) =>
                  /\ table.size = 2
                  /\ hash_table_get(table, a) = last_inserted[a]
                  /\ hash_table_get(table, b) = last_inserted[b]

\* "a" and "a\0" both inserted, with values of their own
C23_Witness ==
    /\ live
    /\ distinct_history /\ n_inserts = 2 /\ m_removes = 0
    /\ ever_inserted = {KeyPool[1], KeyPool[2]}
    /\ table.size = 2
    /\ op.name = "get" /\ op.key = KeyPool[2] /\ op.ret # NULL
    /\ hash_table_get(table, KeyPool[1]) \notin {NULL, op.ret}

\* C24: the table keeps its own copy of the key bytes.  Once a key was
\* inserted, whatever the caller writes into its key buffer afterwards, a slot
\* still holds the bytes that were inserted and get with those bytes finds
\* the entry with its value.
C24_KeyIsCopied ==
    live => \A k \in CallerKeys :
                last_inserted[k] # NoValue =>
                    /\ Stored(Resolve(table, heap), k)
                    /\ Found(Resolve(table, heap), k)
                    /\ hash_table_get(Resolve(table, heap), k) = last_inserted[k]

\* "a\0" was inserted, the buffer now holds "b\0", and get("a\0") finds it
C24_Witness ==
    /\ live
    /\ last_inserted[KeyPool[1]] \notin {NoValue, NULL}
    /\ heap.key_buffer = KeyPool[3]
    /\ op.name = "get" /\ op.key = KeyPool[1] /\ op.hit
    /\ op.ret = last_inserted[KeyPool[1]]

\* C25: insert_copy stores an independent copy of the value.  For every key
\* that insert_copy stored last, get returns an object that holds what the
\* caller's object held at the time of the call, and that is not the caller's
\* object, whatever the caller wrote into its object since.
C25_ValueIsCopied ==
    live => \A k \in CallerKeys :
                heap.copied[k] # Uninitialised =>
                    /\ Found(Resolve(table, heap), k)
                    /\ hash_table_get(Resolve(table, heap), k) \notin {NULL, CALLER_VALUE}
                    /\ heap.values[hash_table_get(Resolve(table, heap), k)] = heap.copied[k]

\* "a\0" was stored by insert_copy when the caller's object held 10, the
\* caller's object now holds 20, and get("a\0") returns an object holding 10
C25_Witness ==
    /\ live
    /\ heap.copied[KeyPool[1]] = 10
    /\ heap.values[CALLER_VALUE] = 20
    /\ op.name = "get" /\ op.key = KeyPool[1] /\ op.hit
    /\ heap.values[op.ret] = 10

\* how many slots of t hold the key
SlotsOf(t, key) == Cardinality({i \in Occupied(t) : t.keys[i] = key})

\* how many times the key buffer of key is in the sequence of freed buffers
FreesOf(freed, key) == Cardinality({j \in 1..Len(freed) : freed[j] = key})

\* C26: clear on a table with K occupied entries frees the K key buffers,
\* each once, calls the destructor (or free) K times, once per occupied slot
\* on the value of that slot, leaves size 0 and every slot empty, keeps the
\* capacity, and get then returns absent for every key.
C26_ClearEmptiesTable ==
    [][(op'.name = "clear" /\ op'.fail # "null_table") =>
          /\ Len(freed_keys') = Cardinality(Occupied(table))
          /\ \A i \in Occupied(table) :
                 FreesOf(freed_keys', table.keys[i]) = SlotsOf(table, table.keys[i])
          /\ Len(destroyed') = Cardinality(Occupied(table))
          /\ \A i \in Occupied(table) :
                 /\ DestroyValue(table, table.values[i])
                        \in {destroyed'[j] : j \in 1..Len(destroyed')}
                 /\ CallsOn(destroyed', table.values[i])
                        = Cardinality({n \in Occupied(table) :
                                           table.values[n] = table.values[i]})
          /\ table'.size = 0
          /\ Occupied(table') = {}
          /\ \A i \in 0..(table'.capacity - 1) : table'.values[i] = NULL
          /\ table'.capacity = table.capacity
          /\ \A k \in Keys :
                 ~Found(table', k) /\ hash_table_get(table', k) = NULL]_vars

\* clear has just emptied a table of two entries
C26_Witness ==
    /\ op.name = "clear" /\ live
    /\ Len(freed_keys) = 2 /\ Len(destroyed) = 2
    /\ table.size = 0

\* the calls that may end the life of the value get(key) returned
Invalidates(call, key) ==
    \/ call.name \in {"clear", "destroy"}
    \/ call.name \in InsertNames \cup {"remove"} /\ call.key = key

\* the value pointers the destructor or free was called on
DestroyedValues(calls) == {calls[j][2] : j \in 1..Len(calls)}

\* C27: a value get(k) returns stays live across every call other than an
\* insert of k, remove(k), clear and destroy: a call on another key, and the
\* resize it may trigger, applies neither the destructor nor free to it, and
\* a failed insert_copy frees its own copy only.
C27_ValueStaysLive ==
    [][(live /\ (destroyed' # <<>> \/ op'.copy_freed)) =>
          \A k \in Keys :
              (hash_table_get(table, k) # NULL /\ ~Invalidates(op', k)) =>
                  /\ hash_table_get(table, k) \notin DestroyedValues(destroyed')
                  /\ ~(op'.copy_freed /\ op'.value = hash_table_get(table, k))]_vars

\* "a" was removed and its value destroyed while get("a\0") still has a value
C27_Witness ==
    /\ live
    /\ op.name = "remove" /\ op.key = KeyPool[2] /\ op.hit
    /\ destroyed # <<>> /\ destroyed[1][2] # NULL
    /\ hash_table_get(table, KeyPool[1]) # NULL

\* the string s with its terminator: the bytes up to and with the first 0
Terminated(s) ==
    SubSeq(s, 1, CHOOSE n \in 1..Len(s) : s[n] = 0 /\ \A j \in 1..(n - 1) : s[j] # 0)

\* the bytes of the string s, without the terminator
Unterminated(s) == SubSeq(Terminated(s), 1, Len(Terminated(s)) - 1)

\* the wrapper call just made left what the generic call with key k leaves
SameAsGeneric(k) ==
    CASE op'.name = "insert_string" ->
           \E rf \in ResizeOutcomes(table), kc \in BOOLEAN :
              \E g \in {hash_table_insert(table, k, op'.value, rf, kc)} :
                 /\ table' = g.table /\ op'.ret = g.ret /\ op'.fail = g.fail
                 /\ destroyed' = g.destroyed
      [] op'.name = "insert_copy_string" ->
           \E rf \in ResizeOutcomes(table), kc \in BOOLEAN :
              \E g \in {hash_table_insert_copy(table, k, CALLER_VALUE, op'.value, rf, kc)} :
                 /\ table' = g.table /\ op'.ret = g.ret /\ op'.fail = g.fail
                 /\ destroyed' = g.destroyed /\ op'.copy_freed = g.copy_freed
      [] op'.name = "get_string" ->
           table' = table /\ op'.ret = hash_table_get(table, k)
      [] op'.name = "remove_string" ->
           /\ table' = hash_table_remove(table, k).table
           /\ destroyed' = hash_table_remove(table, k).destroyed
           /\ freed_keys' = hash_table_remove(table, k).freed_keys
      [] op'.name = "contains_string" ->
           table' = table /\ op'.ret = hash_table_contains(table, k)

StringNames ==
    {"insert_string", "insert_copy_string", "get_string", "remove_string",
     "contains_string"}

\* C28: each string wrapper returns what the generic operation returns, and
\* leaves the table the generic operation leaves, when that is called with the
\* string's bytes and its terminator (length strlen + 1); the key a wrapper
\* uses matches a slot holding the bytes with the terminator and no slot
\* holding the bytes without it.
C28_StringWrappersAreGeneric ==
    /\ [][(op'.name \in StringNames /\ op'.key # NULL_KEY) =>
              SameAsGeneric(Terminated(op'.key))]_vars
    /\ [](live =>
             \A s \in StringBuffers, i \in Occupied(table) :
                 /\ table.keys[i] = Terminated(s) => KeyMatches(table, i, string_key(s))
                 /\ table.keys[i] = Unterminated(s) => ~KeyMatches(table, i, string_key(s)))

\* "a" was inserted through insert_string and as the raw byte "a": two
\* entries, and get_string("a") returns the one of insert_string
C28_Witness ==
    /\ live
    /\ op.name = "get_string" /\ op.key = <<97, 0, 98, 0>> /\ op.hit
    /\ op.ret = last_inserted[<<97, 0>>] /\ op.ret # NULL
    /\ last_inserted[<<97>>] \notin {NoValue, NULL, op.ret}
    /\ Stored(table, <<97>>) /\ Stored(table, <<97, 0>>)

\* the table an insert scans: the grown one when the growth test holds
ScannedByInsert(t) ==
    IF NeedsResize(t) /\ NewCapacity(t) > t.capacity
    THEN hash_table_resize(t, NewCapacity(t), "none").table
    ELSE t

\* the scan for key stopped because iterations reached the capacity
StopsAtCap(t, key) == Find(t, key).iterations >= t.capacity

\* t has an empty slot, and no scan of a lookup, a remove or an insert in t
\* stops at the iteration cap
NeverFull(t) ==
    /\ t.size < t.capacity
    /\ Occupied(t) # 0..(t.capacity - 1)
    /\ \A k \in Keys : ~StopsAtCap(t, k) /\ ~StopsAtCap(ScannedByInsert(t), k)

\* C30, as stated: with any threshold 0 < t <= 1 and factor > 1 the table is
\* never full and no scan stops at the iteration cap.
C30_NeverFull == live => NeverFull(table)

\* C30, amended: with a threshold below 1 the table is never full and no scan
\* stops at the iteration cap.
C30_NeverFullBelowOne ==
    (live /\ table.resize_threshold[1] < table.resize_threshold[2]) => NeverFull(table)

\* threshold 0.5, one slot is left, and get of an absent key has stopped at
\* the empty slot after it passed an occupied one
C30_Witness ==
    /\ live
    /\ table.resize_threshold[1] < table.resize_threshold[2]
    /\ table.size = table.capacity - 1 /\ table.size >= 2
    /\ op.name = "get" /\ ~op.hit /\ ~Stored(table, op.key)
    /\ Find(table, op.key).iterations >= 1

\* C29: every call of get, contains, insert, insert_copy, remove, clear and
\* destroy returns; a scan never makes more than capacity iterations, the slot
\* loop never passes capacity, and while a scan runs, what is left of it ends
\* where the scan from the home slot ends.
C29_CallsTerminate ==
    /\ [](running.pc = "scan" =>
             /\ running.iterations <= table.capacity
             /\ probe(table, running.key, running.index, running.iterations)
                    = Find(table, running.key))
    /\ [](running.pc = "clear" => running.index <= table.capacity)
    /\ (running.pc # "idle") ~> (running.pc = "idle")

\* every slot is occupied, the key is absent, and the scan has stopped at
\* iterations = capacity
C29_Witness ==
    /\ running.pc = "scan"
    /\ Occupied(table) = 0..(table.capacity - 1)
    /\ ~Stored(table, running.key)
    /\ running.iterations = table.capacity

\* C31: whenever insert reaches its new-entry path and stores the key, the
\* slot it stores it in was empty: one more slot is occupied afterwards, and
\* no occupied slot was overwritten.
C31_NewEntryFillsEmptySlot ==
    [][(op'.name \in InsertNames /\ op'.ret = 0 /\ ~op'.hit) =>
          OccupiedCount(table') = OccupiedCount(table) + 1]_vars

\* C32: no two occupied slots hold the same key (equal length and equal
\* bytes): a key is stored at most once.
C32_KeyStoredOnce ==
    live =>
        \A i, j \in Occupied(table) :
            KeyMatches(table, i, table.keys[j]) => i = j

\* C33: for every occupied slot s holding key k, every slot on the wrapping
\* probe path from the home index of k up to s is occupied.
C33_ProbeRunsUnbroken ==
    live =>
        \A s \in Occupied(table) :
            \A d \in 0..((s - HomeIndex(table.keys[s], table.capacity) + table.capacity)
                            % table.capacity) :
                table.keys[(HomeIndex(table.keys[s], table.capacity) + d)
                               % table.capacity] # NULL_KEY

\* C34: ownership is exact over the life of a table.  After destroy, every
\* value an insert accepted has been destroyed and every key buffer the table
\* allocated has been freed: no allocation is outstanding, and none was
\* released twice.
C34_OwnershipExact ==
    ~live => heap.values = 0 /\ heap.key_buffers = 0

\* C35 as stated: an insert on a key that is already present changes only the
\* value of that key: capacity and size are unchanged (no resize is
\* triggered) and every other slot keeps its key and its value.
C35_UpdateChangesOnlyValue ==
    [][(op'.name = "insert" /\ op'.ret = 0 /\ Find(table, op'.key).found) =>
          table' = [table EXCEPT !.values[Find(table, op'.key).index] = op'.value]]_vars

\* C35 amended: it holds when the growth test of insert is false; the test
\* precedes the probe, so an insert on a present key may resize the table.
C35_UpdateWithoutGrowth ==
    [][(op'.name = "insert" /\ op'.ret = 0 /\ ~NeedsResize(table)
            /\ Find(table, op'.key).found) =>
          table' = [table EXCEPT !.values[Find(table, op'.key).index] = op'.value]]_vars

\* an insert updated a present key on a table with another entry, without growth
C35_Witness ==
    /\ live
    /\ op.name = "insert" /\ op.ret = 0 /\ op.hit /\ ~op.resized
    /\ table.size >= 2

\* the call met an allocation failure
AllocationFailed(call) == call.fail \in {"resize_alloc", "key_alloc", "value_alloc"}

\* C36: on a table with a factor above 1, an insert that triggers growth and
\* meets no allocation failure grows the table to a greater capacity, the
\* truncation of capacity * resize_factor, and succeeds.
C36_GrowthIncreasesCapacity ==
    [][(/\ op'.name = "insert"
        /\ table.resize_factor[1] > table.resize_factor[2]
        /\ NeedsResize(table)
        /\ ~AllocationFailed(op')) =>
          /\ table'.capacity > table.capacity
          /\ table'.capacity
                 = (table.capacity * table.resize_factor[1]) \div table.resize_factor[2]
          /\ op'.ret = 0]_vars

\* C37: a successful resize leaves size as it was: the count made while the
\* entries are migrated is the size before the resize.
C37_ResizeKeepsSize ==
    [][op'.resized => Resized(table).size = table.size]_vars

\* C38: on a table with a factor of at most 1, an insert that needs growth
\* returns failure and leaves capacity, size and slots unchanged.
C38_NoGrowthFailsCleanly ==
    [][(/\ op'.name = "insert"
        /\ table.resize_factor[1] <= table.resize_factor[2]
        /\ NeedsResize(table)) =>
          (op'.ret = 1 /\ table' = table)]_vars

\* C39: after insert_copy made its copy of the value, a failure leaves the
\* copy freed, once, and stored in no slot; a success leaves it in one slot of
\* the table, not freed.  Neither destroys it, and the caller's object is
\* as it was.
C39_CopyReleasedOrOwned ==
    [][(op'.name = "insert_copy" /\ op'.value # NULL) =>
          /\ heap'.values[CALLER_VALUE] = heap.values[CALLER_VALUE]
          /\ \A i \in 1..Len(destroyed') : destroyed'[i][2] # op'.value
          /\ IF op'.ret # 0
             THEN op'.copy_freed /\ op'.value \notin StoredValues(table')
             ELSE /\ ~op'.copy_freed
                  /\ Cardinality({i \in 0..(table'.capacity - 1) :
                                     table'.values[i] = op'.value}) = 1]_vars

\* insert_copy failed on the copy of the key, on a table that holds an entry
C39_Witness ==
    /\ op.name = "insert_copy" /\ op.value # NULL
    /\ op.ret # 0 /\ op.fail = "key_alloc" /\ op.copy_freed
    /\ table.size > 0

\* the key of length 0 is stored in t at the slot index, as a key of its own:
\* the slot is occupied with the key length 0, no key of another length
\* matches it, and remove with the key length 0 empties the slot, counts the
\* entry off and leaves the key absent
StoredAsKey(t, index) ==
    /\ t.keys[index] # NULL_KEY /\ t.key_sizes[index] = 0
    /\ \A k \in ZeroKeys \ {ZERO_LENGTH_KEY} : ~KeyMatches(t, index, k)
    /\ hash_table_remove(t, ZERO_LENGTH_KEY).hit
    /\ hash_table_remove(t, ZERO_LENGTH_KEY).table.keys[index] = NULL_KEY
    /\ hash_table_remove(t, ZERO_LENGTH_KEY).table.size = t.size - 1
    /\ ~Find(hash_table_remove(t, ZERO_LENGTH_KEY).table, ZERO_LENGTH_KEY).found

\* C40: a key of length 0 that insert accepted is stored as a key of its
\* own: get and contains with the key length 0 find it, size counts it,
\* remove with the key length 0 removes it, and no key of another length
\* matches it.
C40_ZeroLengthKeyIsAKey ==
    [][(op'.name = "insert" /\ op'.key = ZERO_LENGTH_KEY /\ op'.ret = 0) =>
          /\ Find(table', ZERO_LENGTH_KEY).found
          /\ StoredAsKey(table', Find(table', ZERO_LENGTH_KEY).index)
          /\ hash_table_get(table', ZERO_LENGTH_KEY) = op'.value
          /\ hash_table_contains(table', ZERO_LENGTH_KEY) = 1
          /\ hash_table_size(table') = Cardinality(Occupied(table'))
          /\ ~op'.hit => hash_table_size(table') = hash_table_size(table) + 1]_vars

\* C40 for a value pointer that is not NULL
C40_ZeroLengthKeyWithValue ==
    [][(/\ op'.name = "insert" /\ op'.key = ZERO_LENGTH_KEY /\ op'.ret = 0
        /\ op'.value # NULL) =>
          /\ Find(table', ZERO_LENGTH_KEY).found
          /\ StoredAsKey(table', Find(table', ZERO_LENGTH_KEY).index)
          /\ hash_table_get(table', ZERO_LENGTH_KEY) = op'.value
          /\ hash_table_contains(table', ZERO_LENGTH_KEY) = 1
          /\ hash_table_size(table') = Cardinality(Occupied(table'))
          /\ ~op'.hit => hash_table_size(table') = hash_table_size(table) + 1]_vars

====
